---- MODULE Spec2Model ----
(***************************************************************************)
(* Model of the Translation Server lifecycle manager of biblib-cli          *)
(* (src/src/server-manager.ts): the record file (pid file), the OS process  *)
(* table, and the four operations status, start, stop and ensureRunning of  *)
(* NodeTranslationServerManager.  Every await and every system call of an   *)
(* operation is one step, so the environment (a process exiting on its own) *)
(* can act between any two of them.                                         *)
(***************************************************************************)
EXTENDS Integers, Sequences, FiniteSets, TLC

VARIABLES
    pidFile,    \* the file settings.pidFile: Absent, Faulty, or File(sequence of characters)
    dirs,       \* TRUE once the parent directories of pidFile and logFile exist
    logFile,    \* TRUE once settings.logFile exists
    procs,      \* OS process table: pid -> "none" | "alive" | "dead"
    call,       \* per caller: the operation in flight (or last completed) and its locals
    pre,        \* per caller: what the caller's current operation found when it began
    nOps,       \* number of operations begun so far
    disk        \* the other files the commands work on: the markdown note and the config file

vars == <<pidFile, dirs, logFile, procs, call, pre, nOps, disk>>

----------------------------------------------------------------------------
(* Bounds of the model *)

\* number of operations begun in one behaviour
MaxOps == 2
\* the startupTimeoutMs of the configurations of the model (the schema's minimum is 1000)
StartupTimeoutMs == 1000
\* length of the texts a record file is tried with
MaxRecordLen == 3

----------------------------------------------------------------------------
(* Program constants *)

StatusProbeCapMs == 3000
StartProbeTimeoutMs == 1500
StopGraceMs == 5000
StopPollMs == 150
DefaultPollIntervalMs == 500
DefaultRequestTimeoutMs == 20000
\* line 17: the first status code that is not healthy
ServerErrorStatus == 500

\* the command line's commands, each of which constructs a manager and calls one operation
Callers == {"main", "other"}
\* the caller whose operations run one after the other
Main == "main"

\* pid of the process a record left by an earlier run names
OldPid == 9
\* pids the OS hands to the children spawned in one behaviour
Pids == OldPid .. (OldPid + MaxOps)

\* states of the record file: missing, present but not accessible, present with a text
Absent == [st |-> "ENOENT", text |-> <<>>]
Faulty == [st |-> "EACCES", text |-> <<>>]
File(text) == [st |-> "ok", text |-> text]
NL == "\n"
Digits == <<"0", "1", "2", "3", "4", "5", "6", "7", "8", "9">>

Min(a, b) == IF a < b THEN a ELSE b

----------------------------------------------------------------------------
(* Text of the record file *)

DigitVal(ch) == (CHOOSE i \in 1..10 : Digits[i] = ch) - 1
IsDigit(ch) == \E i \in 1..10 : Digits[i] = ch
IsSpace(ch) == ch \in {" ", NL, "\t"}

RECURSIVE ToDecimal(_)
\* `${child.pid}`: the decimal digits of a non-negative integer
ToDecimal(n) ==
    IF n < 10 THEN <<Digits[n + 1]>>
    ELSE ToDecimal(n \div 10) \o <<Digits[(n % 10) + 1]>>

RECURSIVE TrimLeft(_)
TrimLeft(s) == IF s # <<>> /\ IsSpace(Head(s)) THEN TrimLeft(Tail(s)) ELSE s

RECURSIVE TrimRight(_)
TrimRight(s) ==
    IF s # <<>> /\ IsSpace(s[Len(s)]) THEN TrimRight(SubSeq(s, 1, Len(s) - 1)) ELSE s

\* String.prototype.trim
Trim(s) == TrimRight(TrimLeft(s))

RECURSIVE DigitsValue(_)
DigitsValue(s) ==
    IF s = <<>> THEN 0
    ELSE 10 * DigitsValue(SubSeq(s, 1, Len(s) - 1)) + DigitVal(s[Len(s)])

AllDigits(s) == \A i \in 1..Len(s) : IsDigit(s[i])
AllZeros(s) == \A i \in 1..Len(s) : s[i] = "0"

NaN == [nan |-> TRUE, int |-> FALSE, val |-> 0]
Num(isInt, v) == [nan |-> FALSE, int |-> isInt, val |-> v]

\* Number(text) for text over digits, sign, decimal point and other characters:
\* the empty string is 0, an optionally signed decimal literal is its value, and
\* anything else is NaN.  val is the integer part; int tells whether the
\* value is an integer.
UnsignedNumber(s) ==
    LET dot == {i \in 1..Len(s) : s[i] = "."} IN
    IF dot = {} THEN
        IF s # <<>> /\ AllDigits(s) THEN Num(TRUE, DigitsValue(s)) ELSE NaN
    ELSE
        LET d == CHOOSE i \in dot : \A j \in dot : i <= j
            ip == SubSeq(s, 1, d - 1)
            fp == SubSeq(s, d + 1, Len(s))
        IN  IF AllDigits(ip) /\ AllDigits(fp) /\ (ip # <<>> \/ fp # <<>>)
            THEN Num(AllZeros(fp), DigitsValue(ip))
            ELSE NaN

ToNumber(s) ==
    IF s = <<>> THEN Num(TRUE, 0)
    ELSE IF Head(s) = "-" THEN
        LET u == UnsignedNumber(Tail(s)) IN
        IF u.nan THEN NaN ELSE Num(u.int, 0 - u.val)
    ELSE IF Head(s) = "+" THEN UnsignedNumber(Tail(s))
    ELSE UnsignedNumber(s)

\* the integer test left out: a number with a fraction is cut to its integer part
ParsePid_NoIntegerTest(raw) ==
    LET pid == ToNumber(Trim(raw)) IN
    IF pid.nan \/ pid.val <= 0 THEN 0 ELSE pid.val

\* lines 41-45 of readPidFile: the pid the text designates, 0 for null
ParsePid(raw) ==
    LET pid == ToNumber(Trim(raw)) IN
    IF pid.nan \/ ~pid.int \/ pid.val <= 0 THEN 0 ELSE pid.val

\* every read failure taken for a missing file
readPidFile_MasksErrors(file) ==
    IF file = Absent \/ file = Faulty THEN [err |-> FALSE, pid |-> 0]
    ELSE [err |-> FALSE, pid |-> ParsePid(file.text)]

\* readPidFile: [err, pid]; a missing file is null, any other failure is thrown
readPidFile(file) ==
    IF file = Absent THEN [err |-> FALSE, pid |-> 0]
    ELSE IF file = Faulty THEN [err |-> TRUE, pid |-> 0]
    ELSE [err |-> FALSE, pid |-> ParsePid(file.text)]

\* removePidFileIfExists: [err, file]; an absent file is success
removePidFileIfExists(file) ==
    IF file = Faulty THEN [err |-> TRUE, file |-> file]
    ELSE [err |-> FALSE, file |-> Absent]

\* the text start writes for a child pid
PidText(pid) == ToDecimal(pid) \o <<NL>>

\* isProcessRunning: signal 0 succeeds iff the process exists
isProcessRunning(pid) == pid \in DOMAIN procs /\ procs[pid] = "alive"

----------------------------------------------------------------------------
(* Inputs *)

\* hostnames parseHost yields for the endpoints of the model
Hosts == {"127.0.0.1", "localhost", "example.com"}

\* settings.sourcePath values: unset/empty, blank, a checkout location
SourcePaths == { <<>>, <<" ", " ">>, <<"/", "t", "s">> }

\* ServerManagementConfig (pidFile, logFile and nodeCommand are fixed)
Settings ==
    [enabled : BOOLEAN, autoStart : BOOLEAN, sourcePath : SourcePaths,
     startupTimeoutMs : {StartupTimeoutMs}, pollIntervalMs : {DefaultPollIntervalMs}]

\* the schema's defaults, with a checkout location
DefaultSettings ==
    [enabled |-> FALSE, autoStart |-> FALSE, sourcePath |-> <<"/", "t", "s">>,
     startupTimeoutMs |-> StartupTimeoutMs, pollIntervalMs |-> DefaultPollIntervalMs]

\* The configurations an operation is tried with differ in the fields the operation
\* reads: status and stop read none of them, start reads sourcePath and the two
\* durations, ensureRunning reads enabled and what start reads; autoStart is varied
\* with enabled.
SettingsFor(op) ==
    CASE op = "ensureRunning" -> Settings
      [] op = "start" -> {s \in Settings : s.enabled = FALSE /\ s.autoStart = FALSE}
      [] OTHER -> {DefaultSettings}

\* request timeouts a caller passes to status and ensureRunning: below and above the cap
RequestTimeouts == {StartupTimeoutMs, DefaultRequestTimeoutMs}

\* time an unanswered probe with the given timeout takes: refused at once, or cut at the timeout
ProbeDurations(timeoutMs) == {0, timeoutMs}

\* record contents an earlier run (or an editor) may have left behind
InitialRecords ==
    { Absent, Faulty } \cup
    { File(text) : text \in { <<"a", "b", "c", NL>>, <<"0", NL>>, PidText(OldPid) } }

\* What the network does with the GET of a probe: the server answers with a status
\* code after latency ms, the transport fails after latency ms (connection refused,
\* reset, no route), or nothing ever comes back.
StatusCodes == {100, 199, 200, 204, 302, 404, 499, 500, 503, 599}
Latencies == {20, 1200, 2000, 4000}
NetBehaviours ==
    [kind : {"answers"}, status : StatusCodes, latency : Latencies] \cup
    [kind : {"fails"}, status : {0}, latency : Latencies] \cup
    [kind : {"silent"}, status : {0}, latency : {0}]
NoNet == [kind |-> "none", status |-> 0, latency |-> 0]

\* the timeouts the manager probes with (lines 74, 133, 175)
ProbeTimeouts == {Min(StatusProbeCapMs, t) : t \in RequestTimeouts} \cup {StartProbeTimeoutMs}

\* a file that does not exist, and a disk on which the commands have written nothing yet
NoFile == [st |-> "ENOENT"]
EmptyDisk == [note |-> NoFile, noteDir |-> FALSE, config |-> NoFile, configDir |-> FALSE]

\* the arguments of a call that are not the manager's
NoArgs == [none |-> TRUE]

NoStatus == [reachable |-> FALSE, pid |-> 0, process |-> "none"]

IdleCall ==
    [op |-> "none", pc |-> "idle", seq |-> 0, host |-> "", timeoutMs |-> 0,
     settings |-> DefaultSettings, pid |-> 0, child |-> 0, t |-> 0, reachable |-> FALSE,
     result |-> "none", startResult |-> "none", ret |-> NoStatus, net |-> NoNet,
     ensureRequested |-> FALSE, args |-> NoArgs, out |-> NoFile, trace |-> <<>>]

\* one observable effect of a call: what was done, to which pid, with what answer
Ev(e, pid, ok) == [e |-> e, pid |-> pid, ok |-> ok]

Log(r, ev) == [r EXCEPT !.trace = Append(@, ev)]
Goto(r, pc) == [r EXCEPT !.pc = pc]
Returns(r, res) == [r EXCEPT !.pc = "done", !.result = res]
\* the end of status, start, stop or ensureRunning with a result; a start that
\* ensureRunning awaits (line 184) hands its result to ensureRunning
Finish(r, res) ==
    IF r.op = "ensureRunning" /\ \E i \in DOMAIN r.trace : r.trace[i].e = "start"
    THEN [r EXCEPT !.pc = "ensure_return", !.startResult = res]
    ELSE Returns(r, res)
Upd(c, r) == call' = [call EXCEPT ![c] = r]

Init ==
    /\ pidFile \in InitialRecords
    /\ dirs \in BOOLEAN
    /\ pidFile # Absent => dirs
    /\ logFile = dirs
    /\ \E st \in {"alive", "dead"} :
           /\ st = "alive" => pidFile = File(PidText(OldPid))
           /\ procs = [p \in Pids |-> IF p = OldPid THEN st ELSE "none"]
    /\ call = [c \in Callers |-> IdleCall]
    /\ disk = EmptyDisk
    /\ pre = [c \in Callers |-> [op |-> "none", result |-> "none", child |-> 0,
                                  record |-> pidFile, dirs |-> dirs, logFile |-> logFile,
                                  spawned |-> {}, disk |-> disk]]
    /\ nOps = 0

\* the processes spawned by the manager so far
Spawned == {p \in Pids : p # OldPid /\ procs[p] # "none"}

\* what a call of caller c finds when it begins: the caller's previous call (operation,
\* result, child spawned) and the files and processes of that moment
Snapshot(c) ==
    [op |-> call[c].op, result |-> call[c].result, child |-> call[c].child,
     record |-> pidFile, dirs |-> dirs, logFile |-> logFile, spawned |-> Spawned,
     disk |-> disk]

\* operations of one caller do not overlap: a call begins when none is in flight
CanBegin(c) ==
    /\ c = Main
    /\ nOps < MaxOps
    /\ \A d \in Callers : call[d].pc \in {"idle", "done"}

NewCall(op, pc, host, timeoutMs, s) ==
    [IdleCall EXCEPT !.op = op, !.pc = pc, !.seq = nOps + 1, !.host = host,
                     !.timeoutMs = timeoutMs, !.settings = s]

----------------------------------------------------------------------------
(* Environment *)

\* a process ends on its own (or because of a signal it received earlier)
ProcExit(p) ==
    /\ procs[p] = "alive"
    /\ procs' = [procs EXCEPT ![p] = "dead"]
    /\ UNCHANGED <<pidFile, dirs, logFile, call, pre, nOps, disk>>

----------------------------------------------------------------------------
(* status, lines 73-86 *)

BeginStatus(c, host, timeoutMs, s) ==
    /\ CanBegin(c)
    /\ Upd(c, NewCall("status", "status_probe", host, timeoutMs, s))
    /\ pre' = [pre EXCEPT ![c] = Snapshot(c)]
    /\ nOps' = nOps + 1
    /\ UNCHANGED <<pidFile, dirs, logFile, procs, disk>>

\* the caller's budget handed to the probe as it is
StatusProbe_CallerBudget(c) ==
    /\ call[c].pc = "status_probe"
    /\ \E r \in BOOLEAN :
         Upd(c, Goto(Log([call[c] EXCEPT !.reachable = r],
                         Ev("probe", call[c].timeoutMs, r)),
                     "status_read"))
    /\ UNCHANGED <<pidFile, dirs, logFile, procs, pre, nOps, disk>>

\* line 74: await pingTranslationServer(serverUrl, Math.min(3000, timeoutMs))
StatusProbe(c) ==
    /\ call[c].pc = "status_probe"
    /\ \E r \in BOOLEAN :
         Upd(c, Goto(Log([call[c] EXCEPT !.reachable = r],
                         Ev("probe", Min(StatusProbeCapMs, call[c].timeoutMs), r)),
                     "status_read"))
    /\ UNCHANGED <<pidFile, dirs, logFile, procs, pre, nOps, disk>>

\* a record file that holds no pid deleted on the way
StatusRead_ClearsInvalid(c) ==
    /\ call[c].pc = "status_read"
    /\ LET rd == readPidFile(pidFile)
           r == Log(call[c], Ev("read", rd.pid, ~rd.err))
       IN  IF rd.err THEN Upd(c, Finish(r, "IOFailure")) /\ pidFile' = pidFile
           ELSE /\ Upd(c, Goto([r EXCEPT !.pid = rd.pid], "status_classify"))
                /\ pidFile' = IF rd.pid = 0 THEN Absent ELSE pidFile
    /\ UNCHANGED <<dirs, logFile, procs, pre, nOps, disk>>

\* line 75: await readPidFile(pidFile)
StatusRead(c) ==
    /\ call[c].pc = "status_read"
    /\ LET rd == readPidFile(pidFile)
           r == Log(call[c], Ev("read", rd.pid, ~rd.err))
       IN  IF rd.err THEN Upd(c, Finish(r, "IOFailure"))
           ELSE Upd(c, Goto([r EXCEPT !.pid = rd.pid], "status_classify"))
    /\ UNCHANGED <<pidFile, dirs, logFile, procs, pre, nOps, disk>>

\* the two axes coupled: a reachable server makes the recorded process count as running
StatusClassify_ReachableMeansRunning(c) ==
    /\ call[c].pc = "status_classify"
    /\ LET r == call[c] IN
       IF r.pid = 0 THEN
           Upd(c, Finish([r EXCEPT !.ret = [reachable |-> r.reachable, pid |-> 0,
                                            process |-> "missing"]], "ok"))
       ELSE
           LET alive == isProcessRunning(r.pid) IN
           Upd(c, Finish([Log(r, Ev("isProcessRunning", r.pid, alive))
                            EXCEPT !.ret = [reachable |-> r.reachable, pid |-> r.pid,
                                            process |-> IF alive \/ r.reachable
                                                        THEN "running" ELSE "stopped"]],
                         "ok"))
    /\ UNCHANGED <<pidFile, dirs, logFile, procs, pre, nOps, disk>>

\* lines 77-85
StatusClassify(c) ==
    /\ call[c].pc = "status_classify"
    /\ LET r == call[c] IN
       IF r.pid = 0 THEN
           Upd(c, Finish([r EXCEPT !.ret = [reachable |-> r.reachable, pid |-> 0,
                                            process |-> "missing"]], "ok"))
       ELSE
           LET alive == isProcessRunning(r.pid) IN
           Upd(c, Finish([Log(r, Ev("isProcessRunning", r.pid, alive))
                            EXCEPT !.ret = [reachable |-> r.reachable, pid |-> r.pid,
                                            process |-> IF alive THEN "running" ELSE "stopped"]],
                         "ok"))
    /\ UNCHANGED <<pidFile, dirs, logFile, procs, pre, nOps, disk>>

----------------------------------------------------------------------------
(* start, lines 88-146 *)

\* the host check left out
IsLoopback_NoCheck(host) == host = host

\* line 90
IsLoopback(host) == host = "127.0.0.1" \/ host = "localhost"

\* the liveness test inverted
AlreadyRunning_Inverted(pid) == pid # 0 /\ ~isProcessRunning(pid)

\* line 95: currentPid && isProcessRunning(currentPid)
AlreadyRunning(pid) == pid # 0 /\ isProcessRunning(pid)

\* the blank test left out
SourcePathEmpty_NoTrim(sourcePath) == sourcePath = <<>>

\* line 99: !sourcePath || sourcePath.trim() === ''
SourcePathEmpty(sourcePath) == sourcePath = <<>> \/ Trim(sourcePath) = <<>>

\* the pid the OS gives to the next child
FreshPid == CHOOSE p \in Pids : procs[p] = "none" /\ \A q \in Pids : procs[q] = "none" => p <= q

BeginStart(c, host, s) ==
    /\ CanBegin(c)
    /\ Upd(c, NewCall("start", "start_host", host, 0, s))
    /\ pre' = [pre EXCEPT ![c] = Snapshot(c)]
    /\ nOps' = nOps + 1
    /\ UNCHANGED <<pidFile, dirs, logFile, procs, disk>>

\* start looks at the endpoint first and returns when it answers
StartHost_ReachableIsSuccess(c) ==
    /\ call[c].pc = "start_host"
    /\ IF ~IsLoopback(call[c].host)
       THEN Upd(c, Finish(call[c], "HostNotLocal"))
       ELSE \E reachable \in BOOLEAN :
               LET r == Log(call[c], Ev("probe", StartProbeTimeoutMs, reachable)) IN
               IF reachable THEN Upd(c, Finish(r, "ok")) ELSE Upd(c, Goto(r, "start_read"))
    /\ UNCHANGED <<pidFile, dirs, logFile, procs, pre, nOps, disk>>

\* lines 89-92: the host check
StartHost(c) ==
    /\ call[c].pc = "start_host"
    /\ IF ~IsLoopback(call[c].host)
       THEN Upd(c, Finish(call[c], "HostNotLocal"))
       ELSE Upd(c, Goto(call[c], "start_read"))
    /\ UNCHANGED <<pidFile, dirs, logFile, procs, pre, nOps, disk>>

\* line 94: await readPidFile(pidFile)
StartRead(c) ==
    /\ call[c].pc = "start_read"
    /\ LET rd == readPidFile(pidFile)
           r == Log(call[c], Ev("read", rd.pid, ~rd.err))
       IN  IF rd.err THEN Upd(c, Finish(r, "IOFailure"))
           ELSE Upd(c, Goto([r EXCEPT !.pid = rd.pid], "start_check"))
    /\ UNCHANGED <<pidFile, dirs, logFile, procs, pre, nOps, disk>>

\* sourcePath validated before the recorded pid is looked at
StartCheck_SourceFirst(c) ==
    /\ call[c].pc = "start_check"
    /\ LET r0 == call[c]
           r == IF r0.pid # 0
                THEN Log(r0, Ev("isProcessRunning", r0.pid, isProcessRunning(r0.pid)))
                ELSE r0
       IN  IF SourcePathEmpty(r.settings.sourcePath)
           THEN Upd(c, Finish(r, "SourcePathEmpty"))
           ELSE IF AlreadyRunning(r0.pid) THEN Upd(c, Finish(r, "ok"))
                ELSE Upd(c, Goto(r, "start_access"))
    /\ UNCHANGED <<pidFile, dirs, logFile, procs, pre, nOps, disk>>

\* lines 95-101: a live recorded pid ends the call; otherwise sourcePath is validated
StartCheck(c) ==
    /\ call[c].pc = "start_check"
    /\ LET r0 == call[c]
           r == IF r0.pid # 0
                THEN Log(r0, Ev("isProcessRunning", r0.pid, isProcessRunning(r0.pid)))
                ELSE r0
       IN  IF AlreadyRunning(r0.pid) THEN Upd(c, Finish(r, "ok"))
           ELSE IF SourcePathEmpty(r.settings.sourcePath)
                THEN Upd(c, Finish(r, "SourcePathEmpty"))
                ELSE Upd(c, Goto(r, "start_access"))
    /\ UNCHANGED <<pidFile, dirs, logFile, procs, pre, nOps, disk>>

\* the endpoint probed before anything is spawned: a reachable one ends the call
StartAccess_ProbesFirst(c) ==
    /\ call[c].pc = "start_access"
    /\ \E reachable \in BOOLEAN :
         LET p == Log(call[c], Ev("probe", StartProbeTimeoutMs, reachable)) IN
         IF reachable THEN Upd(c, Finish(p, "ok"))
         ELSE \E exists \in BOOLEAN :
                 LET r == Log(p, Ev("access", 0, exists)) IN
                 IF exists THEN Upd(c, Goto(r, "start_mkdir"))
                 ELSE Upd(c, Finish(r, "EntryNotFound"))
    /\ UNCHANGED <<pidFile, dirs, logFile, procs, pre, nOps, disk>>

\* lines 106-110: await fsp.access(serverEntry); the entry artifact is there or not
StartAccess(c) ==
    /\ call[c].pc = "start_access"
    /\ \E exists \in BOOLEAN :
         LET r == Log(call[c], Ev("access", 0, exists)) IN
         IF exists THEN Upd(c, Goto(r, "start_mkdir"))
         ELSE Upd(c, Finish(r, "EntryNotFound"))
    /\ UNCHANGED <<pidFile, dirs, logFile, procs, pre, nOps, disk>>

\* lines 112-113: the parent directories of pidFile and logFile
StartMkdir(c) ==
    /\ call[c].pc = "start_mkdir"
    /\ dirs' = TRUE
    /\ Upd(c, Goto(Log(call[c], Ev("mkdir", 0, TRUE)), "start_spawn"))
    /\ UNCHANGED <<pidFile, logFile, procs, pre, nOps, disk>>

\* lines 115-127: open the log for append, spawn the detached child.  spawn
\* either yields a child with a pid, throws, or yields a child without a pid
\* (the command could not be executed; the failure is reported by an 'error' event).
StartSpawn(c) ==
    /\ call[c].pc = "start_spawn"
    /\ logFile' = TRUE
    /\ \E outcome \in {"pid", "throws", "nopid"} :
         LET r == Log(call[c], Ev("open", 0, TRUE)) IN
         CASE outcome = "pid" ->
                /\ procs' = [procs EXCEPT ![FreshPid] = "alive"]
                /\ Upd(c, Goto(Log([r EXCEPT !.child = FreshPid], Ev("spawn", FreshPid, TRUE)),
                               "start_write"))
           [] outcome = "throws" ->
                /\ procs' = procs
                /\ Upd(c, Finish(Log(r, Ev("spawn", 0, FALSE)), "SpawnFailed"))
           [] outcome = "nopid" ->
                /\ procs' = procs
                /\ Upd(c, Goto(Log(r, Ev("spawn", 0, FALSE)), "start_write"))
    /\ UNCHANGED <<pidFile, dirs, pre, nOps, disk>>

\* the pid appended to the record file instead of replacing its text
StartWrite_Appends(c) ==
    /\ call[c].pc = "start_write"
    /\ LET r == call[c] IN
       IF r.child = 0 THEN
           \E truncated \in BOOLEAN :
              /\ pidFile' = IF truncated /\ pidFile # Faulty THEN File(<<>>) ELSE pidFile
              /\ Upd(c, Finish(IF truncated /\ pidFile # Faulty
                               THEN Log(r, Ev("write", 0, FALSE)) ELSE r, "Crashed"))
       ELSE IF pidFile = Faulty THEN
           /\ pidFile' = pidFile
           /\ Upd(c, Finish(Log(r, Ev("write", r.child, FALSE)), "IOFailure"))
       ELSE
           /\ pidFile' = File(pidFile.text \o PidText(r.child))
           /\ Upd(c, Goto(Log([r EXCEPT !.t = 0], Ev("write", r.child, TRUE)), "start_poll"))
    /\ UNCHANGED <<dirs, logFile, procs, pre, nOps, disk>>

\* line 129: await fsp.writeFile(pidFile, `${child.pid}\n`); line 131: the deadline.
\* For a child without a pid no listener takes the 'error' event (lines 117-127),
\* so the program ends on it while the write is in flight: the file is left
\* as it was or created empty.
StartWrite(c) ==
    /\ call[c].pc = "start_write"
    /\ LET r == call[c] IN
       IF r.child = 0 THEN
           \E truncated \in BOOLEAN :
              /\ pidFile' = IF truncated /\ pidFile # Faulty THEN File(<<>>) ELSE pidFile
              /\ Upd(c, Finish(IF truncated /\ pidFile # Faulty
                               THEN Log(r, Ev("write", 0, FALSE)) ELSE r, "Crashed"))
       ELSE IF pidFile = Faulty THEN
           /\ pidFile' = pidFile
           /\ Upd(c, Finish(Log(r, Ev("write", r.child, FALSE)), "IOFailure"))
       ELSE
           /\ pidFile' = File(PidText(r.child))
           /\ Upd(c, Goto(Log([r EXCEPT !.t = 0], Ev("write", r.child, TRUE)), "start_poll"))
    /\ UNCHANGED <<dirs, logFile, procs, pre, nOps, disk>>

\* while (true): an iteration begins whatever the clock says
StartProbe_NoDeadline(c) ==
    /\ call[c].pc = "start_poll"
    /\ \E reachable \in BOOLEAN :
         LET r == Log([call[c] EXCEPT !.reachable = reachable],
                      Ev("probe", StartProbeTimeoutMs, reachable)) IN
         IF reachable THEN Upd(c, Finish(r, "ok"))
         ELSE \E d \in ProbeDurations(StartProbeTimeoutMs) :
                 Upd(c, Goto([r EXCEPT !.t = @ + d], "start_alive"))
    /\ UNCHANGED <<pidFile, dirs, logFile, procs, pre, nOps, disk>>

\* lines 132-135: before the deadline, await pingTranslationServer(serverUrl, 1500)
StartProbe(c) ==
    /\ call[c].pc = "start_poll"
    /\ call[c].t < call[c].settings.startupTimeoutMs
    /\ \E reachable \in BOOLEAN :
         LET r == Log([call[c] EXCEPT !.reachable = reachable],
                      Ev("probe", StartProbeTimeoutMs, reachable)) IN
         IF reachable THEN Upd(c, Finish(r, "ok"))
         ELSE \E d \in ProbeDurations(StartProbeTimeoutMs) :
                 Upd(c, Goto([r EXCEPT !.t = @ + d], "start_alive"))
    /\ UNCHANGED <<pidFile, dirs, logFile, procs, pre, nOps, disk>>

\* the loop sleeps whatever the liveness check finds
StartAlive_SleepsWhenDead(c) ==
    /\ call[c].pc = "start_alive"
    /\ LET alive == isProcessRunning(call[c].child)
           r == Log(call[c], Ev("isProcessRunning", call[c].child, alive))
       IN  Upd(c, Goto(r, "start_sleep"))
    /\ UNCHANGED <<pidFile, dirs, logFile, procs, pre, nOps, disk>>

\* line 137: isProcessRunning(child.pid ?? -1)
StartAlive(c) ==
    /\ call[c].pc = "start_alive"
    /\ LET alive == isProcessRunning(call[c].child)
           r == Log(call[c], Ev("isProcessRunning", call[c].child, alive))
       IN  Upd(c, Goto(r, IF alive THEN "start_sleep" ELSE "start_clear"))
    /\ UNCHANGED <<pidFile, dirs, logFile, procs, pre, nOps, disk>>

\* exited-early raised without clearing the record
StartClear_KeepsRecord(c) ==
    /\ call[c].pc = "start_clear"
    /\ Upd(c, Finish(call[c], "ExitedEarly"))
    /\ UNCHANGED <<pidFile, dirs, logFile, procs, pre, nOps, disk>>

\* lines 138-139: clear the record, raise exited-early
StartClear(c) ==
    /\ call[c].pc = "start_clear"
    /\ LET rm == removePidFileIfExists(pidFile)
           r == Log(call[c], Ev("unlink", 0, ~rm.err))
       IN  /\ pidFile' = rm.file
           /\ Upd(c, Finish(r, IF rm.err THEN "IOFailure" ELSE "ExitedEarly"))
    /\ UNCHANGED <<dirs, logFile, procs, pre, nOps, disk>>

\* line 142: await sleep(pollIntervalMs)
StartSleep(c) ==
    /\ call[c].pc = "start_sleep"
    /\ Upd(c, Goto(Log([call[c] EXCEPT !.t = @ + call[c].settings.pollIntervalMs],
                       Ev("sleep", call[c].settings.pollIntervalMs, TRUE)), "start_poll"))
    /\ UNCHANGED <<pidFile, dirs, logFile, procs, pre, nOps, disk>>

\* the record cleared on a startup timeout as it is on an early exit
StartTimeout_Clears(c) ==
    /\ call[c].pc = "start_poll"
    /\ call[c].t >= call[c].settings.startupTimeoutMs
    /\ pidFile' = removePidFileIfExists(pidFile).file
    /\ Upd(c, Finish(Log(call[c], Ev("unlink", 0, TRUE)), "StartupTimeout"))
    /\ UNCHANGED <<dirs, logFile, procs, pre, nOps, disk>>

\* lines 132, 145: the deadline has passed
StartTimeout(c) ==
    /\ call[c].pc = "start_poll"
    /\ call[c].t >= call[c].settings.startupTimeoutMs
    /\ Upd(c, Finish(call[c], "StartupTimeout"))
    /\ UNCHANGED <<pidFile, dirs, logFile, procs, pre, nOps, disk>>

----------------------------------------------------------------------------
(* stop, lines 148-172 *)

BeginStop(c, s) ==
    /\ CanBegin(c)
    /\ Upd(c, NewCall("stop", "stop_read", "", 0, s))
    /\ pre' = [pre EXCEPT ![c] = Snapshot(c)]
    /\ nOps' = nOps + 1
    /\ UNCHANGED <<pidFile, dirs, logFile, procs, disk>>

\* a file without a pid removed as a stale record is
StopRead_ClearsInvalid(c) ==
    /\ call[c].pc = "stop_read"
    /\ LET rd == readPidFile(pidFile)
           r == Log(call[c], Ev("read", rd.pid, ~rd.err))
       IN  IF rd.err THEN Upd(c, Finish(r, "IOFailure")) /\ pidFile' = pidFile
           ELSE IF rd.pid = 0
                THEN Upd(c, Finish(Log(r, Ev("unlink", 0, TRUE)), "ok")) /\ pidFile' = Absent
                ELSE Upd(c, Goto([r EXCEPT !.pid = rd.pid], "stop_check")) /\ pidFile' = pidFile
    /\ UNCHANGED <<dirs, logFile, procs, pre, nOps, disk>>

\* lines 149-152: await readPidFile(pidFile); no record ends the call
StopRead(c) ==
    /\ call[c].pc = "stop_read"
    /\ LET rd == readPidFile(pidFile)
           r == Log(call[c], Ev("read", rd.pid, ~rd.err))
       IN  IF rd.err THEN Upd(c, Finish(r, "IOFailure"))
           ELSE IF rd.pid = 0 THEN Upd(c, Finish(r, "ok"))
           ELSE Upd(c, Goto([r EXCEPT !.pid = rd.pid], "stop_check"))
    /\ UNCHANGED <<pidFile, dirs, logFile, procs, pre, nOps, disk>>

\* the stale-record branch left out: the signal is sent whatever the liveness
StopCheck_NoStaleBranch(c) ==
    /\ call[c].pc = "stop_check"
    /\ LET alive == isProcessRunning(call[c].pid)
           r == Log(call[c], Ev("isProcessRunning", call[c].pid, alive))
       IN  Upd(c, Goto(r, "stop_term"))
    /\ UNCHANGED <<pidFile, dirs, logFile, procs, pre, nOps, disk>>

\* line 154: isProcessRunning(pid)
StopCheck(c) ==
    /\ call[c].pc = "stop_check"
    /\ LET alive == isProcessRunning(call[c].pid)
           r == Log(call[c], Ev("isProcessRunning", call[c].pid, alive))
       IN  Upd(c, Goto(r, IF alive THEN "stop_term" ELSE "stop_stale"))
    /\ UNCHANGED <<pidFile, dirs, logFile, procs, pre, nOps, disk>>

\* lines 155-156: the recorded pid is dead: await removePidFileIfExists, return
StopStale(c) ==
    /\ call[c].pc = "stop_stale"
    /\ LET rm == removePidFileIfExists(pidFile)
           r == Log(call[c], Ev("unlink", 0, ~rm.err))
       IN  /\ pidFile' = rm.file
           /\ Upd(c, Finish(r, IF rm.err THEN "IOFailure" ELSE "ok"))
    /\ UNCHANGED <<dirs, logFile, procs, pre, nOps, disk>>

\* the record deleted as soon as the graceful signal is sent
StopTerm_ClearsFirst(c) ==
    /\ call[c].pc = "stop_term"
    /\ LET sent == isProcessRunning(call[c].pid)
           r == Log([call[c] EXCEPT !.t = 0], Ev("SIGTERM", call[c].pid, sent))
       IN  IF sent
           THEN /\ pidFile' = removePidFileIfExists(pidFile).file
                /\ Upd(c, Goto(Log(r, Ev("unlink", 0, TRUE)), "stop_poll"))
           ELSE /\ pidFile' = pidFile
                /\ Upd(c, Finish(r, "KillFailed"))
    /\ UNCHANGED <<dirs, logFile, procs, pre, nOps, disk>>

\* lines 159-161: process.kill(pid, 'SIGTERM'), which throws when the process is gone;
\* then the grace deadline
StopTerm(c) ==
    /\ call[c].pc = "stop_term"
    /\ LET sent == isProcessRunning(call[c].pid)
           r == Log([call[c] EXCEPT !.t = 0], Ev("SIGTERM", call[c].pid, sent))
       IN  IF sent THEN Upd(c, Goto(r, "stop_poll")) ELSE Upd(c, Finish(r, "KillFailed"))
    /\ UNCHANGED <<pidFile, dirs, logFile, procs, pre, nOps, disk>>

\* while (true): the liveness is polled whatever the clock says
StopPoll_NoDeadline(c) ==
    /\ call[c].pc = "stop_poll"
    /\ LET alive == isProcessRunning(call[c].pid)
           r == Log(call[c], Ev("isProcessRunning", call[c].pid, alive))
       IN  Upd(c, Goto(r, IF alive THEN "stop_sleep" ELSE "stop_dead"))
    /\ UNCHANGED <<pidFile, dirs, logFile, procs, pre, nOps, disk>>

\* lines 162-163: before the grace deadline, isProcessRunning(pid)
StopPoll(c) ==
    /\ call[c].pc = "stop_poll"
    /\ call[c].t < StopGraceMs
    /\ LET alive == isProcessRunning(call[c].pid)
           r == Log(call[c], Ev("isProcessRunning", call[c].pid, alive))
       IN  Upd(c, Goto(r, IF alive THEN "stop_sleep" ELSE "stop_dead"))
    /\ UNCHANGED <<pidFile, dirs, logFile, procs, pre, nOps, disk>>

\* the return after a death within the grace period, without the deletion
StopDead_KeepsRecord(c) ==
    /\ call[c].pc = "stop_dead"
    /\ Upd(c, Finish(call[c], "ok"))
    /\ UNCHANGED <<pidFile, dirs, logFile, procs, pre, nOps, disk>>

\* lines 164-165: the process died within the grace period
StopDead(c) ==
    /\ call[c].pc = "stop_dead"
    /\ LET rm == removePidFileIfExists(pidFile)
           r == Log(call[c], Ev("unlink", 0, ~rm.err))
       IN  /\ pidFile' = rm.file
           /\ Upd(c, Finish(r, IF rm.err THEN "IOFailure" ELSE "ok"))
    /\ UNCHANGED <<dirs, logFile, procs, pre, nOps, disk>>

\* the record read again after every sleep, the pid taken from it
StopSleep_RereadsRecord(c) ==
    /\ call[c].pc = "stop_sleep"
    /\ LET rd == readPidFile(pidFile)
           r == Log([call[c] EXCEPT !.t = @ + StopPollMs], Ev("sleep", StopPollMs, TRUE))
       IN  Upd(c, Goto(Log([r EXCEPT !.pid = IF rd.pid # 0 THEN rd.pid ELSE @],
                           Ev("read", rd.pid, ~rd.err)),
                       "stop_poll"))
    /\ UNCHANGED <<pidFile, dirs, logFile, procs, pre, nOps, disk>>

\* line 167: await sleep(150)
StopSleep(c) ==
    /\ call[c].pc = "stop_sleep"
    /\ Upd(c, Goto(Log([call[c] EXCEPT !.t = @ + StopPollMs], Ev("sleep", StopPollMs, TRUE)),
                   "stop_poll"))
    /\ UNCHANGED <<pidFile, dirs, logFile, procs, pre, nOps, disk>>

\* the forceful signal sent without waiting for the grace deadline
StopKill_Early(c) ==
    /\ call[c].pc = "stop_poll"
    /\ LET sent == isProcessRunning(call[c].pid)
           r == Log(call[c], Ev("SIGKILL", call[c].pid, sent))
       IN  IF sent
           THEN /\ procs' = [procs EXCEPT ![call[c].pid] = "dead"]
                /\ Upd(c, Goto(r, "stop_final"))
           ELSE /\ procs' = procs
                /\ Upd(c, Finish(r, "KillFailed"))
    /\ UNCHANGED <<pidFile, dirs, logFile, pre, nOps, disk>>

\* lines 162, 170: the grace deadline has passed: process.kill(pid, 'SIGKILL'), which
\* throws when the process is gone; a process cannot ignore the signal
StopKill(c) ==
    /\ call[c].pc = "stop_poll"
    /\ call[c].t >= StopGraceMs
    /\ LET sent == isProcessRunning(call[c].pid)
           r == Log(call[c], Ev("SIGKILL", call[c].pid, sent))
       IN  IF sent
           THEN /\ procs' = [procs EXCEPT ![call[c].pid] = "dead"]
                /\ Upd(c, Goto(r, "stop_final"))
           ELSE /\ procs' = procs
                /\ Upd(c, Finish(r, "KillFailed"))
    /\ UNCHANGED <<pidFile, dirs, logFile, pre, nOps, disk>>

\* the record read again and deleted only when it still names the pid stop signalled
StopFinal_RereadsRecord(c) ==
    /\ call[c].pc = "stop_final"
    /\ LET rd == readPidFile(pidFile)
           mine == ~rd.err /\ rd.pid = call[c].pid
           rm == removePidFileIfExists(pidFile)
           r == Log(call[c], Ev("read", rd.pid, ~rd.err))
       IN  IF mine
           THEN /\ pidFile' = rm.file
                /\ Upd(c, Finish(Log(r, Ev("unlink", 0, ~rm.err)), "ok"))
           ELSE /\ pidFile' = pidFile
                /\ Upd(c, Finish(r, IF rd.err THEN "IOFailure" ELSE "ok"))
    /\ UNCHANGED <<dirs, logFile, procs, pre, nOps, disk>>

\* line 171: await removePidFileIfExists(pidFile)
StopFinal(c) ==
    /\ call[c].pc = "stop_final"
    /\ LET rm == removePidFileIfExists(pidFile)
           r == Log(call[c], Ev("unlink", 0, ~rm.err))
       IN  /\ pidFile' = rm.file
           /\ Upd(c, Finish(r, IF rm.err THEN "IOFailure" ELSE "ok"))
    /\ UNCHANGED <<dirs, logFile, procs, pre, nOps, disk>>

----------------------------------------------------------------------------
(* ensureRunning, lines 174-185 *)

\* autoStart required as well
ManagementEnabled_NeedsAutoStart(s) == s.enabled /\ s.autoStart

\* line 180: this.settings.enabled
ManagementEnabled(s) == s.enabled

BeginEnsureRunning(c, host, requestTimeoutMs, s) ==
    /\ CanBegin(c)
    /\ Upd(c, NewCall("ensureRunning", "ensure_probe", host, requestTimeoutMs, s))
    /\ pre' = [pre EXCEPT ![c] = Snapshot(c)]
    /\ nOps' = nOps + 1
    /\ UNCHANGED <<pidFile, dirs, logFile, procs, disk>>

\* line 175: await pingTranslationServer(serverUrl, Math.min(3000, requestTimeoutMs))
EnsureProbe(c) ==
    /\ call[c].pc = "ensure_probe"
    /\ \E r \in BOOLEAN :
         Upd(c, Goto(Log([call[c] EXCEPT !.reachable = r],
                         Ev("probe", Min(StatusProbeCapMs, call[c].timeoutMs), r)),
                     "ensure_decide"))
    /\ UNCHANGED <<pidFile, dirs, logFile, procs, pre, nOps, disk>>

\* the enabled test made before the reachability test
EnsureDecide_EnabledFirst(c) ==
    /\ call[c].pc = "ensure_decide"
    /\ LET r == call[c] IN
       IF ~ManagementEnabled(r.settings) THEN Upd(c, Finish(r, "ManagementDisabled"))
       ELSE IF r.reachable THEN Upd(c, Finish(r, "ok"))
       ELSE Upd(c, Goto(Log(r, Ev("start", 0, TRUE)), "start_host"))
    /\ UNCHANGED <<pidFile, dirs, logFile, procs, pre, nOps, disk>>

\* lines 176-184: reachable is a no-op; disabled management is an error; else start(serverUrl)
EnsureDecide(c) ==
    /\ call[c].pc = "ensure_decide"
    /\ LET r == call[c] IN
       IF r.reachable THEN Upd(c, Finish(r, "ok"))
       ELSE IF ~ManagementEnabled(r.settings) THEN Upd(c, Finish(r, "ManagementDisabled"))
       ELSE Upd(c, Goto(Log(r, Ev("start", 0, TRUE)), "start_host"))
    /\ UNCHANGED <<pidFile, dirs, logFile, procs, pre, nOps, disk>>

\* the failure of the awaited start swallowed
EnsureReturn_Swallows(c) ==
    /\ call[c].pc = "ensure_return"
    /\ Upd(c, Returns(call[c], "ok"))
    /\ UNCHANGED <<pidFile, dirs, logFile, procs, pre, nOps, disk>>

\* line 184: await this.start(serverUrl) settles: its result is ensureRunning's
EnsureReturn(c) ==
    /\ call[c].pc = "ensure_return"
    /\ Upd(c, Returns(call[c], call[c].startResult))
    /\ UNCHANGED <<pidFile, dirs, logFile, procs, pre, nOps, disk>>

----------------------------------------------------------------------------
(* pingTranslationServer, lines 11-23 *)

\* line 16: await fetch(url, {method: 'GET', signal}) with the abort timer of lines
\* 12-13: the response when the server answers before the timer fires; otherwise a
\* rejection (the transport's error, or the abort at timeoutMs)
fetch(net, timeoutMs) ==
    IF net.kind = "answers" /\ net.latency < timeoutMs
    THEN [threw |-> FALSE, status |-> net.status, elapsed |-> net.latency]
    ELSE IF net.kind = "fails" /\ net.latency < timeoutMs
    THEN [threw |-> TRUE, status |-> 0, elapsed |-> net.latency]
    ELSE [threw |-> TRUE, status |-> 0, elapsed |-> timeoutMs]

\* only the 2xx answers count as healthy (response.ok)
pingTranslationServer_OkOnly(net, timeoutMs) ==
    LET response == fetch(net, timeoutMs) IN
    IF response.threw THEN FALSE ELSE response.status >= 200 /\ response.status < 300

\* lines 15-21: try { return response.status < 500 } catch { return false }
pingTranslationServer(net, timeoutMs) ==
    LET response == fetch(net, timeoutMs) IN
    IF response.threw THEN FALSE ELSE response.status < ServerErrorStatus

\* a caller calls the exported probe on its own
BeginPing(c, net, timeoutMs) ==
    /\ CanBegin(c)
    /\ Upd(c, [NewCall("ping", "ping_fetch", "", timeoutMs, DefaultSettings) EXCEPT !.net = net])
    /\ pre' = [pre EXCEPT ![c] = Snapshot(c)]
    /\ nOps' = nOps + 1
    /\ UNCHANGED <<pidFile, dirs, logFile, procs, disk>>

\* lines 12-16: the abort timer is set and the one GET request is issued
PingFetch(c) ==
    /\ call[c].pc = "ping_fetch"
    /\ Upd(c, Goto(Log(call[c], Ev("GET", 0, TRUE)), "ping_settle"))
    /\ UNCHANGED <<pidFile, dirs, logFile, procs, pre, nOps, disk>>

\* lines 16-22: the fetch settles, the timer is cleared, the probe returns
PingSettle(c) ==
    /\ call[c].pc = "ping_settle"
    /\ LET r == call[c]
           reachable == pingTranslationServer(r.net, r.timeoutMs)
       IN  Upd(c, Returns(Log([r EXCEPT !.reachable = reachable,
                                        !.t = fetch(r.net, r.timeoutMs).elapsed],
                              Ev("probe", r.timeoutMs, reachable)), "ok"))
    /\ UNCHANGED <<pidFile, dirs, logFile, procs, pre, nOps, disk>>

StepProbe(c) ==
    \/ \E net \in NetBehaviours, timeoutMs \in ProbeTimeouts : BeginPing(c, net, timeoutMs)
    \/ PingFetch(c)
    \/ PingSettle(c)

NextProbe == \E c \in Callers : StepProbe(c)

SpecProbe == Init /\ [][NextProbe]_vars

----------------------------------------------------------------------------
(* The record file read by the three operations, over all short texts *)

\* characters of the texts: digits, signs, the decimal point, white space, a letter
RecordAlphabet == {"0", "1", "-", "+", ".", " ", NL, "a"}
RecordTexts == UNION {[1..n -> RecordAlphabet] : n \in 0..MaxRecordLen}

\* the record file holds any short text or is missing; no process of an earlier run is left
InitRecord ==
    /\ pidFile \in {Absent} \cup {File(text) : text \in RecordTexts}
    /\ dirs = TRUE
    /\ logFile = TRUE
    /\ procs = [p \in Pids |-> IF p = OldPid THEN "dead" ELSE "none"]
    /\ call = [c \in Callers |-> IdleCall]
    /\ disk = EmptyDisk
    /\ pre = [c \in Callers |-> [op |-> "none", result |-> "none", child |-> 0,
                                  record |-> pidFile, dirs |-> dirs, logFile |-> logFile,
                                  spawned |-> {}, disk |-> disk]]
    /\ nOps = 0

\* the settings of start here leave sourcePath unset: start ends at line 100 unless the
\* check of line 95 ends it
NoSourceSettings == {s \in SettingsFor("start") : s.sourcePath = <<>>}

StepRecord(c) ==
    \/ \E tmo \in RequestTimeouts, s \in SettingsFor("status") :
          BeginStatus(c, "127.0.0.1", tmo, s)
    \/ StatusProbe(c)
    \/ StatusRead(c)
    \/ StatusClassify(c)
    \/ \E s \in NoSourceSettings : BeginStart(c, "127.0.0.1", s)
    \/ StartHost(c)
    \/ StartRead(c)
    \/ StartCheck(c)
    \/ \E s \in SettingsFor("stop") : BeginStop(c, s)
    \/ StopRead(c)
    \/ StopCheck(c)
    \/ StopStale(c)

NextRecord == \E c \in Callers : StepRecord(c)

SpecRecord == InitRecord /\ [][NextRecord]_vars

----------------------------------------------------------------------------
(* The record file changed from outside while status, start and stop run *)

\* the record file becomes inaccessible (its permissions or its directory's change):
\* reading, writing and deleting it fail with an error other than ENOENT
RecordFault ==
    /\ pidFile.st = "ok"
    /\ pidFile' = Faulty
    /\ UNCHANGED <<dirs, logFile, procs, call, pre, nOps, disk>>

\* the record file is deleted by someone else
RecordVanish ==
    /\ pidFile.st = "ok"
    /\ pidFile' = Absent
    /\ UNCHANGED <<dirs, logFile, procs, call, pre, nOps, disk>>

StepFaults(c) ==
    \/ \E tmo \in RequestTimeouts, s \in SettingsFor("status") :
          BeginStatus(c, "127.0.0.1", tmo, s)
    \/ StatusProbe(c)
    \/ StatusRead(c)
    \/ StatusClassify(c)
    \/ \E host \in Hosts, s \in SettingsFor("start") : BeginStart(c, host, s)
    \/ StartHost(c)
    \/ StartRead(c)
    \/ StartCheck(c)
    \/ StartAccess(c)
    \/ StartMkdir(c)
    \/ StartSpawn(c)
    \/ StartWrite(c)
    \/ StartProbe(c)
    \/ StartAlive(c)
    \/ StartClear(c)
    \/ StartSleep(c)
    \/ StartTimeout(c)
    \/ \E s \in SettingsFor("stop") : BeginStop(c, s)
    \/ StopRead(c)
    \/ StopCheck(c)
    \/ StopStale(c)
    \/ StopTerm(c)
    \/ StopPoll(c)
    \/ StopDead(c)
    \/ StopSleep(c)
    \/ StopKill(c)
    \/ StopFinal(c)

NextFaults ==
    \/ \E c \in Callers : StepFaults(c)
    \/ \E p \in Pids : ProcExit(p)
    \/ RecordFault
    \/ RecordVanish

SpecFaults == Init /\ [][NextFaults]_vars

----------------------------------------------------------------------------
(* The fetch and write commands, part_003 lines 89-99, 135, 181 *)

\* a fetch or write command, with or without --ensure-server, has loaded its
\* configuration and reaches its call of ensureServerIfNeeded
BeginCommand(c, ensureRequested, host, requestTimeoutMs, s) ==
    /\ CanBegin(c)
    /\ Upd(c, [NewCall("command", "command_ensure", host, requestTimeoutMs, s)
                 EXCEPT !.ensureRequested = ensureRequested])
    /\ pre' = [pre EXCEPT ![c] = Snapshot(c)]
    /\ nOps' = nOps + 1
    /\ UNCHANGED <<pidFile, dirs, logFile, procs, disk>>

\* the test of the two switches left out: the manager is always asked
ensureServerIfNeeded_Always(c) ==
    /\ call[c].pc = "command_ensure"
    /\ Upd(c, [call[c] EXCEPT !.op = "ensureRunning", !.pc = "ensure_probe"])
    /\ UNCHANGED <<pidFile, dirs, logFile, procs, pre, nOps, disk>>

\* lines 94-98: shouldEnsure = ensureRequested || autoStart; without it return, with
\* it construct a manager and await manager.ensureRunning(serverUrl, requestTimeoutMs)
ensureServerIfNeeded(c) ==
    /\ call[c].pc = "command_ensure"
    /\ LET r == call[c]
           shouldEnsure == r.ensureRequested \/ r.settings.autoStart
       IN  IF ~shouldEnsure THEN Upd(c, Returns(r, "ok"))
           ELSE Upd(c, [r EXCEPT !.op = "ensureRunning", !.pc = "ensure_probe"])
    /\ UNCHANGED <<pidFile, dirs, logFile, procs, pre, nOps, disk>>

StepCommand(c) ==
    \/ \E ensureRequested \in BOOLEAN, host \in Hosts, tmo \in RequestTimeouts,
          s \in SettingsFor("ensureRunning") :
          BeginCommand(c, ensureRequested, host, tmo, s)
    \/ ensureServerIfNeeded(c)
    \/ EnsureProbe(c)
    \/ EnsureDecide(c)
    \/ EnsureReturn(c)
    \/ StartHost(c)
    \/ StartRead(c)
    \/ StartCheck(c)
    \/ StartAccess(c)
    \/ StartMkdir(c)
    \/ StartSpawn(c)
    \/ StartWrite(c)
    \/ StartProbe(c)
    \/ StartAlive(c)
    \/ StartClear(c)
    \/ StartSleep(c)
    \/ StartTimeout(c)

NextCommand ==
    \/ \E c \in Callers : StepCommand(c)
    \/ \E p \in Pids : ProcExit(p)

SpecCommand == Init /\ [][NextCommand]_vars

----------------------------------------------------------------------------
(* writeMarkdownFrontmatter, frontmatter.ts lines 229-272 *)

\* Frontmatter objects: maps from some of the keys to values.  "null" is YAML's null;
\* an existing note holds old values, the CSL item of the command new ones.
FmKeys == {"tags", "title", "id"}
OldValues == {"old", "null"}
NewValues == {"new", "null"}
Objects(values) == UNION {[keys -> values] : keys \in SUBSET FmKeys}
EmptyObject == [k \in {} |-> "null"]
\* line 211-214: cslToFrontmatterObject always sets tags
NewObjects == {o \in Objects(NewValues) : "tags" \in DOMAIN o}
\* config.write.preserveFields: none, the default, two keys, a key no object has
PreserveFieldLists == {<<>>, <<"tags">>, <<"title", "tags">>, <<"aliases">>}
\* what follows the frontmatter block in the file
Bodies == {<<>>, <<"x">>, <<NL, NL, "x">>}

\* A markdown text: with a frontmatter block (FRONTMATTER_RE matches at its start, the
\* block holds the YAML of fm) or without, and the rest.  YAML.stringify and YAML.parse
\* are taken to be inverse on these objects.
Text(hasFm, fm, body) == [st |-> "ok", hasFm |-> hasFm, fm |-> fm, body |-> body]
EmptyText == Text(FALSE, EmptyObject, <<>>)
NoteFiles ==
    {NoFile} \cup {Text(FALSE, EmptyObject, b) : b \in Bodies}
             \cup {Text(TRUE, o, b) : o \in Objects(OldValues), b \in Bodies}

RECURSIVE DropNewlines(_)
DropNewlines(s) == IF s # <<>> /\ Head(s) = NL THEN DropNewlines(Tail(s)) ELSE s
\* line 262: body.replace(/^\n+/, '\n')
CollapseLeadingNewlines(s) ==
    IF s # <<>> /\ Head(s) = NL THEN <<NL>> \o DropNewlines(s) ELSE s

\* { ...a, ...b }
Spread(a, b) ==
    [k \in DOMAIN a \cup DOMAIN b |-> IF k \in DOMAIN b THEN b[k] ELSE a[k]]
\* o[key] = value
Assign(o, key, value) == [k \in DOMAIN o \cup {key} |-> IF k = key THEN value ELSE o[k]]

RECURSIVE PreserveLoop(_, _, _)
\* lines 256-260: for (const key of preserveFields) if (existing[key] !== undefined) ...
PreserveLoop(merged, existing, fields) ==
    IF fields = <<>> THEN merged
    ELSE LET key == Head(fields) IN
         PreserveLoop(IF key \in DOMAIN existing THEN Assign(merged, key, existing[key])
                      ELSE merged,
                      existing, Tail(fields))

\* the spread the other way round: every existing value is kept
ShallowMerge_ExistingWins(existing, newFm, preserveFields) ==
    PreserveLoop(Spread(newFm, existing), existing, preserveFields)

\* lines 253-260
ShallowMerge(existing, newFm, preserveFields) ==
    PreserveLoop(Spread(existing, newFm), existing, preserveFields)

\* lines 243-262: the text next
NextText(current, args) ==
    IF current.hasFm
    THEN Text(TRUE,
              IF args.mode = "shallow"
              THEN ShallowMerge(current.fm, args.newFm, args.preserveFields)
              ELSE args.newFm,
              CollapseLeadingNewlines(current.body))
    ELSE Text(TRUE, args.newFm, CollapseLeadingNewlines(current.body))

WriteArgs ==
    [newFm : NewObjects, preserveFields : PreserveFieldLists,
     mode : {"shallow", "replace"}, dryRun : BOOLEAN]

\* the commands run one after the other, each caller one
CanBeginNote(c) ==
    /\ nOps < MaxOps
    /\ call[c].pc = "idle"
    /\ \A d \in Callers : call[d].pc \in {"idle", "done"}
    /\ c # Main => call[Main].pc = "done"

\* the second command is the first one again, with or without --dry-run
SameCommand(c, args) ==
    \A d \in Callers \ {c} :
       call[d].op # "none" => [args EXCEPT !.dryRun = TRUE] = [call[d].args EXCEPT !.dryRun = TRUE]

BeginWriteMarkdownFrontmatter(c, args) ==
    /\ CanBeginNote(c)
    /\ SameCommand(c, args)
    /\ Upd(c, [NewCall("writeMarkdownFrontmatter", "wmf_read", "", 0, DefaultSettings)
                 EXCEPT !.args = args])
    /\ pre' = [pre EXCEPT ![c] = Snapshot(c)]
    /\ nOps' = nOps + 1
    /\ UNCHANGED <<pidFile, dirs, logFile, procs, disk>>

\* the test of dryRun left out: the text is written whatever the flag
WmfRead_IgnoresDryRun(c) ==
    /\ call[c].pc = "wmf_read"
    /\ LET r == call[c]
           current == IF disk.note = NoFile THEN EmptyText ELSE disk.note
           next == NextText(current, r.args)
       IN  Upd(c, Goto(Log([r EXCEPT !.out = next], Ev("readFile", 0, TRUE)), "wmf_mkdir"))
    /\ UNCHANGED <<pidFile, dirs, logFile, procs, pre, nOps, disk>>

\* lines 238-264: await fs.readFile (a missing file is the empty text), the text next,
\* and the return of a dry run
WmfRead(c) ==
    /\ call[c].pc = "wmf_read"
    /\ LET r == call[c]
           current == IF disk.note = NoFile THEN EmptyText ELSE disk.note
           next == NextText(current, r.args)
           r1 == Log([r EXCEPT !.out = next], Ev("readFile", 0, TRUE))
       IN  IF r.args.dryRun THEN Upd(c, Returns(r1, "ok"))
           ELSE Upd(c, Goto(r1, "wmf_mkdir"))
    /\ UNCHANGED <<pidFile, dirs, logFile, procs, pre, nOps, disk>>

\* line 265: await fs.mkdir(path.dirname(resolved), { recursive: true })
WmfMkdir(c) ==
    /\ call[c].pc = "wmf_mkdir"
    /\ disk' = [disk EXCEPT !.noteDir = TRUE]
    /\ Upd(c, Goto(Log(call[c], Ev("mkdir", 0, TRUE)), "wmf_write"))
    /\ UNCHANGED <<pidFile, dirs, logFile, procs, pre, nOps>>

\* lines 266-269: await fs.writeFile(resolved, next); return next
WmfWrite(c) ==
    /\ call[c].pc = "wmf_write"
    /\ disk' = [disk EXCEPT !.note = call[c].out]
    /\ Upd(c, Returns(Log(call[c], Ev("writeFile", 0, TRUE)), "ok"))
    /\ UNCHANGED <<pidFile, dirs, logFile, procs, pre, nOps>>

\* no server, no record; a note that is missing or holds a text
InitNote ==
    /\ pidFile = Absent /\ dirs = FALSE /\ logFile = FALSE
    /\ procs = [p \in Pids |-> IF p = OldPid THEN "dead" ELSE "none"]
    /\ call = [c \in Callers |-> IdleCall]
    /\ nOps = 0
    /\ \E note \in NoteFiles, noteDir \in BOOLEAN :
          /\ note # NoFile => noteDir
          /\ disk = [EmptyDisk EXCEPT !.note = note, !.noteDir = noteDir]
    /\ pre = [c \in Callers |-> [op |-> "none", result |-> "none", child |-> 0,
                                  record |-> pidFile, dirs |-> dirs, logFile |-> logFile,
                                  spawned |-> {}, disk |-> disk]]

StepNote(c) ==
    \/ \E args \in WriteArgs : BeginWriteMarkdownFrontmatter(c, args)
    \/ WmfRead(c)
    \/ WmfMkdir(c)
    \/ WmfWrite(c)

NextNote == \E c \in Callers : StepNote(c)

SpecNote == InitNote /\ [][NextNote]_vars

----------------------------------------------------------------------------
(* writeDefaultConfig, config.ts lines 347-367 *)

\* a config file holding the given text
ConfigFile(text) == [st |-> "ok", text |-> text]
\* line 365: YAML.stringify(defaultConfigObject())
DefaultConfigText == "default"
\* missing, edited by the user, or as init-config wrote it
ConfigFiles == {NoFile, ConfigFile("custom"), ConfigFile(DefaultConfigText)}

\* init-config, with or without --force, by any caller at any time
BeginWriteDefaultConfig(c, force) ==
    /\ nOps < MaxOps
    /\ call[c].pc \in {"idle", "done"}
    /\ Upd(c, [NewCall("writeDefaultConfig", "wdc_mkdir", "", 0, DefaultSettings)
                 EXCEPT !.args = [force |-> force]])
    /\ pre' = [pre EXCEPT ![c] = Snapshot(c)]
    /\ nOps' = nOps + 1
    /\ UNCHANGED <<pidFile, dirs, logFile, procs, disk>>

\* line 351: await fs.mkdir(dir, { recursive: true }); line 353: if (!force)
WdcMkdir(c) ==
    /\ call[c].pc = "wdc_mkdir"
    /\ disk' = [disk EXCEPT !.configDir = TRUE]
    /\ Upd(c, Goto(Log(call[c], Ev("mkdir", 0, TRUE)),
                   IF call[c].args.force THEN "wdc_write" ELSE "wdc_access"))
    /\ UNCHANGED <<pidFile, dirs, logFile, procs, pre, nOps>>

\* the existence test passes whatever it finds
WdcAccess_NeverFails(c) ==
    /\ call[c].pc = "wdc_access"
    /\ Upd(c, Goto(Log(call[c], Ev("access", 0, disk.config # NoFile)), "wdc_write"))
    /\ UNCHANGED <<pidFile, dirs, logFile, procs, pre, nOps, disk>>

\* lines 354-362: await fs.access(target); the file is there: throw; ENOENT: go on
WdcAccess(c) ==
    /\ call[c].pc = "wdc_access"
    /\ LET r == Log(call[c], Ev("access", 0, disk.config # NoFile))
       IN  IF disk.config # NoFile
           THEN Upd(c, Returns(r, "config_exists"))
           ELSE Upd(c, Goto(r, "wdc_write"))
    /\ UNCHANGED <<pidFile, dirs, logFile, procs, pre, nOps, disk>>

\* lines 365-367: await fs.writeFile(target, output); return target
WdcWrite(c) ==
    /\ call[c].pc = "wdc_write"
    /\ disk' = [disk EXCEPT !.config = ConfigFile(DefaultConfigText)]
    /\ Upd(c, Returns(Log(call[c], Ev("writeFile", 0, TRUE)), "ok"))
    /\ UNCHANGED <<pidFile, dirs, logFile, procs, pre, nOps>>

InitConfig ==
    /\ pidFile = Absent /\ dirs = FALSE /\ logFile = FALSE
    /\ procs = [p \in Pids |-> IF p = OldPid THEN "dead" ELSE "none"]
    /\ call = [c \in Callers |-> IdleCall]
    /\ nOps = 0
    /\ \E config \in ConfigFiles, configDir \in BOOLEAN :
          /\ config # NoFile => configDir
          /\ disk = [EmptyDisk EXCEPT !.config = config, !.configDir = configDir]
    /\ pre = [c \in Callers |-> [op |-> "none", result |-> "none", child |-> 0,
                                  record |-> pidFile, dirs |-> dirs, logFile |-> logFile,
                                  spawned |-> {}, disk |-> disk]]

StepConfig(c) ==
    \/ \E force \in BOOLEAN : BeginWriteDefaultConfig(c, force)
    \/ WdcMkdir(c)
    \/ WdcAccess(c)
    \/ WdcWrite(c)

NextConfig == \E c \in Callers : StepConfig(c)

SpecConfig == InitConfig /\ [][NextConfig]_vars

----------------------------------------------------------------------------
(* start calls that are resumed: the event loop runs the continuation of every *)
(* await that has settled, each probe settles within its timeout, each timer  *)
(* fires                                                                      *)

\* the steps of a start call after its beginning
StartResume(c) ==
    \/ StartHost(c)
    \/ StartRead(c)
    \/ StartCheck(c)
    \/ StartAccess(c)
    \/ StartMkdir(c)
    \/ StartSpawn(c)
    \/ StartWrite(c)
    \/ StartProbe(c)
    \/ StartAlive(c)
    \/ StartClear(c)
    \/ StartSleep(c)
    \/ StartTimeout(c)

StepStart(c) ==
    \/ \E host \in Hosts, s \in SettingsFor("start") : BeginStart(c, host, s)
    \/ StartResume(c)

NextStart ==
    \/ \E c \in Callers : StepStart(c)
    \/ \E p \in Pids : ProcExit(p)

\* no call is left suspended for ever; processes exit or not as they please
SpecStart == Init /\ [][NextStart]_vars /\ \A c \in Callers : WF_vars(StartResume(c))

----------------------------------------------------------------------------
(* stop calls that are resumed: every settled await is continued, each timer fires *)

\* the steps of a stop call after its beginning
StopResume(c) ==
    \/ StopRead(c)
    \/ StopCheck(c)
    \/ StopStale(c)
    \/ StopTerm(c)
    \/ StopPoll(c)
    \/ StopDead(c)
    \/ StopSleep(c)
    \/ StopKill(c)
    \/ StopFinal(c)

StepStop(c) ==
    \/ \E s \in SettingsFor("stop") : BeginStop(c, s)
    \/ StopResume(c)

NextStop ==
    \/ \E c \in Callers : StepStop(c)
    \/ \E p \in Pids : ProcExit(p)

\* no call is left suspended for ever; the process exits on the graceful signal, later,
\* or never
SpecStop == Init /\ [][NextStop]_vars /\ \A c \in Callers : WF_vars(StopResume(c))

----------------------------------------------------------------------------
(* The timeouts of the probes: status, start and ensureRunning on a loopback   *)
(* endpoint, with request timeouts around the cap and several poll settings   *)

\* request timeouts: the least, just below the cap, the cap, just above, the default
ProbeBudgets ==
    {1, StatusProbeCapMs - 1, StatusProbeCapMs, StatusProbeCapMs + 1, DefaultRequestTimeoutMs}

\* startupTimeoutMs and pollIntervalMs varied
PollSettings ==
    [enabled : {TRUE}, autoStart : {FALSE}, sourcePath : {DefaultSettings.sourcePath},
     startupTimeoutMs : {StartupTimeoutMs, 2 * StartupTimeoutMs},
     pollIntervalMs : {DefaultPollIntervalMs, 2 * DefaultPollIntervalMs}]

StepTimeouts(c) ==
    \/ \E tmo \in ProbeBudgets : BeginStatus(c, "127.0.0.1", tmo, DefaultSettings)
    \/ StatusProbe(c)
    \/ StatusRead(c)
    \/ StatusClassify(c)
    \/ \E s \in PollSettings : BeginStart(c, "127.0.0.1", s)
    \/ StartResume(c)
    \/ \E tmo \in ProbeBudgets, s \in PollSettings : BeginEnsureRunning(c, "127.0.0.1", tmo, s)
    \/ EnsureProbe(c)
    \/ EnsureDecide(c)
    \/ EnsureReturn(c)

NextTimeouts ==
    \/ \E c \in Callers : StepTimeouts(c)
    \/ \E p \in Pids : ProcExit(p)

SpecTimeouts == Init /\ [][NextTimeouts]_vars

----------------------------------------------------------------------------

Step(c) ==
    \/ \E host \in Hosts, tmo \in RequestTimeouts, s \in SettingsFor("status") :
          BeginStatus(c, host, tmo, s)
    \/ StatusProbe(c)
    \/ StatusRead(c)
    \/ StatusClassify(c)
    \/ \E host \in Hosts, s \in SettingsFor("start") : BeginStart(c, host, s)
    \/ StartHost(c)
    \/ StartRead(c)
    \/ StartCheck(c)
    \/ StartAccess(c)
    \/ StartMkdir(c)
    \/ StartSpawn(c)
    \/ StartWrite(c)
    \/ StartProbe(c)
    \/ StartAlive(c)
    \/ StartClear(c)
    \/ StartSleep(c)
    \/ StartTimeout(c)
    \/ \E s \in SettingsFor("stop") : BeginStop(c, s)
    \/ StopRead(c)
    \/ StopCheck(c)
    \/ StopStale(c)
    \/ StopTerm(c)
    \/ StopPoll(c)
    \/ StopDead(c)
    \/ StopSleep(c)
    \/ StopKill(c)
    \/ StopFinal(c)
    \/ \E host \in Hosts, tmo \in RequestTimeouts, s \in SettingsFor("ensureRunning") :
          BeginEnsureRunning(c, host, tmo, s)
    \/ EnsureProbe(c)
    \/ EnsureDecide(c)
    \/ EnsureReturn(c)

Next ==
    \/ \E c \in Callers : Step(c)
    \/ \E p \in Pids : ProcExit(p)

Spec == Init /\ [][Next]_vars

----------------------------------------------------------------------------
(* Sequential use on a file system where the write of the record can fail *)

\* line 129: await fsp.writeFile(pidFile, ...) rejects (no space, no permission to
\* write); the file is left as it was or, opened already, empty.  The child spawned at
\* line 117 is detached and start does nothing more with it.
StartWriteFails(c) ==
    /\ call[c].pc = "start_write"
    /\ call[c].child # 0
    /\ pidFile # Faulty
    /\ \E truncated \in BOOLEAN :
          /\ pidFile' = IF truncated THEN File(<<>>) ELSE pidFile
          /\ Upd(c, Finish(Log(call[c], Ev("write", call[c].child, FALSE)), "IOFailure"))
    /\ UNCHANGED <<dirs, logFile, procs, pre, nOps, disk>>

NextWriteFaults ==
    \/ Next
    \/ \E c \in Callers : StartWriteFails(c)

SpecWriteFaults == Init /\ [][NextWriteFaults]_vars

----------------------------------------------------------------------------
(* Overlapped start calls: two commands run at the same time, each with its  *)
(* own manager, on the same record file                                      *)

\* each command makes its one call whatever the other command is doing
CanOverlap(c) ==
    /\ nOps < MaxOps
    /\ call[c].pc = "idle"

\* the commands read the same configuration file: same endpoint, same settings
SameConfig(c, host, s) ==
    \A d \in Callers \ {c} : call[d].op # "none" => call[d].host = host /\ call[d].settings = s

BeginStartOverlapped(c, host, s) ==
    /\ CanOverlap(c)
    /\ SameConfig(c, host, s)
    /\ Upd(c, NewCall("start", "start_host", host, 0, s))
    /\ pre' = [pre EXCEPT ![c] = Snapshot(c)]
    /\ nOps' = nOps + 1
    /\ UNCHANGED <<pidFile, dirs, logFile, procs, disk>>

StepOverlap(c) ==
    \/ \E host \in Hosts, s \in SettingsFor("start") : BeginStartOverlapped(c, host, s)
    \/ StartHost(c)
    \/ StartRead(c)
    \/ StartCheck(c)
    \/ StartAccess(c)
    \/ StartMkdir(c)
    \/ StartSpawn(c)
    \/ StartWrite(c)
    \/ StartProbe(c)
    \/ StartAlive(c)
    \/ StartClear(c)
    \/ StartSleep(c)
    \/ StartTimeout(c)

NextOverlap ==
    \/ \E c \in Callers : StepOverlap(c)
    \/ \E p \in Pids : ProcExit(p)

SpecOverlap == Init /\ [][NextOverlap]_vars

----------------------------------------------------------------------------
(* A stop call overlapped by a start call: two commands run at the same time, *)
(* each with its own manager, on the same record file                         *)

BeginStopOverlapped(c, s) ==
    /\ CanOverlap(c)
    /\ Upd(c, NewCall("stop", "stop_read", "", 0, s))
    /\ pre' = [pre EXCEPT ![c] = Snapshot(c)]
    /\ nOps' = nOps + 1
    /\ UNCHANGED <<pidFile, dirs, logFile, procs, disk>>

\* one command is server stop, the other server start on the loopback endpoint
StepRace(c) ==
    \/ c = Main /\ BeginStopOverlapped(c, DefaultSettings)
    \/ StopResume(c)
    \/ c # Main /\ BeginStartOverlapped(c, "127.0.0.1", DefaultSettings)
    \/ StartResume(c)

NextRace ==
    \/ \E c \in Callers : StepRace(c)
    \/ \E p \in Pids : ProcExit(p)

SpecRace == Init /\ [][NextRace]_vars

----------------------------------------------------------------------------
(* Vocabulary of the properties *)

\* the sequential caller's current (or last completed) call
Cur == call[Main]

Has(r, e) == \E i \in DOMAIN r.trace : r.trace[i].e = e
Saw(r, ev) == \E i \in DOMAIN r.trace : r.trace[i] = ev

\* the call runs start: directly, or as the delegate of ensureRunning
RanStart(r) == r.op = "start" \/ Has(r, "start")

\* the loopback names of the data model
LoopbackNames == {"127.0.0.1", "localhost"}

\* record files that hold no positive integer
NoRecordFiles == {Absent, File(<<>>), File(<<"a", "b", "c", NL>>), File(<<"0", NL>>)}

\* the termination signals a call has sent
SignalsOf(r) == {i \in DOMAIN r.trace : r.trace[i].e \in {"SIGTERM", "SIGKILL"}}

\* the files and the set of spawned processes are as the call found them
FrameKept(c) ==
    /\ pidFile = pre[c].record
    /\ dirs = pre[c].dirs
    /\ logFile = pre[c].logFile
    /\ Spawned = pre[c].spawned

\* the call read the record and found no pid, or a pid that its liveness check found dead
FoundNoLiveRecord(r) ==
    \E i \in DOMAIN r.trace :
       /\ r.trace[i].e = "read" /\ r.trace[i].ok
       /\ \/ r.trace[i].pid = 0
          \/ /\ i < Len(r.trace)
             /\ r.trace[i + 1] = Ev("isProcessRunning", r.trace[i].pid, FALSE)

----------------------------------------------------------------------------
(* C1: start is idempotent.  When a start call that spawned a child and        *)
(* succeeded is followed at once by a second start call on a loopback        *)
(* endpoint, and the child is still alive, the second call succeeds without  *)
(* spawning or writing: the same processes have been spawned after it as     *)
(* before it, and the record is the same file naming the child's pid.        *)
C1_Case ==
    /\ Cur.op = "start" /\ Cur.pc = "done" /\ Cur.host \in LoopbackNames
    /\ pre[Main].op = "start" /\ pre[Main].result = "ok" /\ pre[Main].child # 0
    /\ procs[pre[Main].child] = "alive"

C1_StartIdempotent ==
    C1_Case =>
        /\ Cur.result = "ok"
        /\ ~Has(Cur, "spawn") /\ ~Has(Cur, "write") /\ ~Has(Cur, "unlink")
        /\ Spawned = pre[Main].spawned
        /\ pre[Main].child \in Spawned
        /\ pidFile = pre[Main].record
        /\ pidFile.st = "ok" /\ ParsePid(pidFile.text) = pre[Main].child

C1_Witness == C1_Case /\ Cur.result = "ok"

(* C2: start with a host that is neither 127.0.0.1 nor localhost fails with   *)
(* the host configuration error before any effect: at every moment of such a *)
(* call nothing has been probed, read, spawned, created, written or deleted. *)
C2_Case == Cur.op = "start" /\ Cur.host \notin LoopbackNames

C2_NonLoopbackNoEffect ==
    C2_Case =>
        /\ Cur.trace = <<>>
        /\ FrameKept(Main)
        /\ Cur.pc \in {"start_host", "done"}
        /\ Cur.pc = "done" => Cur.result = "HostNotLocal"

\* reached with a record that names a live process
C2_Witness ==
    /\ C2_Case /\ Cur.pc = "done" /\ Cur.result = "HostNotLocal"
    /\ pidFile = File(PidText(OldPid)) /\ procs[OldPid] = "alive"

(* C3: start on a loopback endpoint that found no live recorded process, with *)
(* an empty or blank source location or a missing entry artifact, fails with *)
(* a configuration error and leaves nothing behind: no process spawned, no   *)
(* record written, no directory and no log file created.                     *)
C3_Case ==
    /\ RanStart(Cur) /\ Cur.pc = "done" /\ Cur.host \in LoopbackNames
    /\ FoundNoLiveRecord(Cur)
    /\ \/ Cur.settings.sourcePath \in {<<>>, <<" ", " ">>}
       \/ Saw(Cur, Ev("access", 0, FALSE))

C3_SourceErrorNoPartialState ==
    C3_Case =>
        /\ Cur.result \in {"SourcePathEmpty", "EntryNotFound"}
        /\ ~Has(Cur, "spawn") /\ ~Has(Cur, "write") /\ ~Has(Cur, "mkdir") /\ ~Has(Cur, "open")
        /\ FrameKept(Main)

\* reached for a blank source location on a fresh installation ...
C3_Witness ==
    /\ C3_Case /\ Cur.settings.sourcePath = <<" ", " ">> /\ Cur.result = "SourcePathEmpty"
    /\ ~dirs /\ ~logFile /\ pidFile = Absent

\* ... and for a missing entry artifact after a stale record
C3_WitnessEntry ==
    /\ C3_Case /\ Cur.result = "EntryNotFound"
    /\ pidFile = File(PidText(OldPid))

\* in some poll iteration after the spawn the probe was unreachable and the child then found dead
DiedInPoll(r) ==
    \E i \in DOMAIN r.trace :
       /\ i < Len(r.trace)
       /\ r.trace[i].e = "probe" /\ ~r.trace[i].ok
       /\ r.trace[i + 1] = Ev("isProcessRunning", r.child, FALSE)
       /\ \E j \in 1..(i - 1) : r.trace[j] = Ev("spawn", r.child, TRUE)

(* C4: a call fails with the exited-early error exactly when, in a poll       *)
(* iteration after its spawn, the probe was unreachable and the child was    *)
(* then found dead; the record is cleared by then, so that reading it yields *)
(* no record; status and stop never fail with this error.                    *)
C4_ExitedEarly ==
    Cur.pc = "done" =>
        /\ Cur.result = "ExitedEarly" <=> (RanStart(Cur) /\ DiedInPoll(Cur))
        /\ Cur.result = "ExitedEarly" =>
              /\ Cur.op \in {"start", "ensureRunning"}
              /\ pidFile = Absent
              /\ Cur.trace[Len(Cur.trace)] = Ev("unlink", 0, TRUE)

C4_Witness == Cur.pc = "done" /\ Cur.result = "ExitedEarly" /\ DiedInPoll(Cur)

\* a probe of the poll loop (after the record was written) answered
ReachableInPoll(r) ==
    \E i, j \in DOMAIN r.trace :
       i < j /\ r.trace[i].e = "write" /\ r.trace[j].e = "probe" /\ r.trace[j].ok

(* C5: a start whose poll loop ends at the deadline without a reachable probe *)
(* fails with the startup-timeout error, and a start that fails so leaves    *)
(* the record in place, naming the child it spawned, and has sent no signal. *)
C5_TimeoutKeepsRecord ==
    /\ (Cur.pc = "start_poll" /\ Cur.t >= Cur.settings.startupTimeoutMs) =>
          /\ ~ReachableInPoll(Cur)
          /\ ENABLED StartTimeout(Main) /\ ~ENABLED StartProbe(Main)
    /\ (Cur.pc = "done" /\ Cur.result = "StartupTimeout") =>
          /\ RanStart(Cur) /\ ~ReachableInPoll(Cur)
          /\ Cur.child # 0 /\ Cur.child \in Spawned \ pre[Main].spawned
          /\ pidFile.st = "ok" /\ ParsePid(pidFile.text) = Cur.child
          /\ SignalsOf(Cur) = {}

C5_Witness ==
    /\ Cur.pc = "done" /\ Cur.result = "StartupTimeout"
    /\ ParsePid(pidFile.text) = Cur.child

\* the answer of the probe ensureRunning begins with
FirstProbe(r) == r.trace[1].e = "probe" /\ r.trace[1].ok

(* C6: ensureRunning fails with the management-disabled error exactly when    *)
(* its first probe was unreachable and enabled is false; it has then done    *)
(* nothing but that probe (no read, no spawn, no start) and the files are as *)
(* they were; no other operation fails with this error.                      *)
C6_ManagementDisabled ==
    Cur.pc = "done" =>
        /\ Cur.op = "ensureRunning" =>
              (Cur.result = "ManagementDisabled"
                  <=> (~FirstProbe(Cur) /\ ~Cur.settings.enabled))
        /\ Cur.result = "ManagementDisabled" =>
              /\ Cur.op = "ensureRunning"
              /\ Len(Cur.trace) = 1 /\ Cur.trace[1].e = "probe"
              /\ FrameKept(Main)

C6_Witness ==
    /\ Cur.pc = "done" /\ Cur.result = "ManagementDisabled"
    /\ ~Cur.settings.enabled /\ Cur.settings.autoStart

(* C7: once the first probe of ensureRunning has answered reachable, the call *)
(* does nothing more and returns success: no read, spawn, signal, write or   *)
(* delete, whatever enabled, the host and the record are.                    *)
C7_Case == Cur.op = "ensureRunning" /\ Cur.trace # <<>> /\ FirstProbe(Cur)

C7_ReachableNoOp ==
    C7_Case =>
        /\ Len(Cur.trace) = 1
        /\ FrameKept(Main)
        /\ Cur.pc \in {"ensure_decide", "done"}
        /\ Cur.pc = "done" => Cur.result = "ok"

\* reached with management disabled, a remote host and a record of a dead process
C7_Witness ==
    /\ C7_Case /\ Cur.pc = "done" /\ Cur.result = "ok"
    /\ ~Cur.settings.enabled /\ Cur.host = "example.com"
    /\ pidFile = File(PidText(OldPid)) /\ procs[OldPid] = "dead"

\* the call read the record and its liveness check found the recorded pid alive
FoundLiveRecord(r) ==
    \E i \in DOMAIN r.trace :
       /\ r.trace[i].e = "read" /\ r.trace[i].ok /\ r.trace[i].pid # 0
       /\ i < Len(r.trace)
       /\ r.trace[i + 1] = Ev("isProcessRunning", r.trace[i].pid, TRUE)

\* What start(endpoint) comes to, as a function of its endpoint, the source location
\* and what it found: the outcome res, the spawn decision and the final record.
StartOutcome(r, res) ==
    /\ res = "HostNotLocal" <=> r.host \notin LoopbackNames
    /\ res = "ok" <=> (FoundLiveRecord(r) \/ ReachableInPoll(r))
    /\ res \in {"SourcePathEmpty", "EntryNotFound"} <=>
          /\ r.host \in LoopbackNames /\ FoundNoLiveRecord(r)
          /\ r.settings.sourcePath \in {<<>>, <<" ", " ">>} \/ Saw(r, Ev("access", 0, FALSE))
    /\ Has(r, "spawn") <=>
          /\ r.host \in LoopbackNames /\ FoundNoLiveRecord(r)
          /\ r.settings.sourcePath \notin {<<>>, <<" ", " ">>} /\ Saw(r, Ev("access", 0, TRUE))
    /\ IF r.child # 0 /\ Saw(r, Ev("write", r.child, TRUE))
       THEN IF res = "ExitedEarly" THEN pidFile = Absent
            ELSE pidFile.st = "ok" /\ ParsePid(pidFile.text) = r.child
       ELSE IF Saw(r, Ev("write", 0, FALSE)) THEN pidFile = File(<<>>)
            ELSE pidFile = pre[Main].record

\* ensureRunning found the endpoint unreachable and management enabled
C8_Case ==
    /\ Cur.op = "ensureRunning" /\ Cur.pc \notin {"ensure_probe", "ensure_decide"}
    /\ ~FirstProbe(Cur) /\ Cur.settings.enabled

(* C8: ensureRunning whose first probe is unreachable, with enabled true,     *)
(* calls start with its endpoint and nothing done before, whatever autoStart *)
(* is, and ends as that start does: the same result, and the outcome, spawn  *)
(* decision and final record that a direct start call comes to.              *)
C8_EnsureRunningIsStart ==
    /\ (Cur.op = "start" /\ Cur.pc = "done") => StartOutcome(Cur, Cur.result)
    /\ (Cur.op = "ensureRunning" /\ Has(Cur, "start")) => C8_Case
    /\ C8_Case =>
          /\ Len(Cur.trace) >= 2 /\ Cur.trace[2] = Ev("start", 0, TRUE)
          /\ Cur.pc = "start_host" =>
                /\ Len(Cur.trace) = 2 /\ FrameKept(Main)
                /\ Cur.pid = 0 /\ Cur.child = 0 /\ Cur.t = 0 /\ Cur.startResult = "none"
          /\ Cur.pc = "done" =>
                /\ Cur.result = Cur.startResult
                /\ StartOutcome(Cur, Cur.result)

\* reached without autoStart, for a start that spawned and failed ...
C8_Witness ==
    /\ C8_Case /\ Cur.pc = "done" /\ ~Cur.settings.autoStart
    /\ Cur.result = "ExitedEarly" /\ Cur.child \in Spawned

\* ... and for one that found the recorded process alive
C8_WitnessNoOp ==
    /\ C8_Case /\ Cur.pc = "done" /\ Cur.settings.autoStart
    /\ Cur.result = "ok" /\ ~Has(Cur, "spawn")

(* C9: stop on a record file that is absent or holds no positive integer      *)
(* returns success having only read it: no signal, no delete, no write, the  *)
(* files as they were, however often it is called.                           *)
C9_Case == Cur.op = "stop" /\ pre[Main].record \in NoRecordFiles

C9_StopNoRecordNoOp ==
    C9_Case =>
        /\ FrameKept(Main)
        /\ SignalsOf(Cur) = {} /\ ~Has(Cur, "unlink") /\ ~Has(Cur, "write")
        /\ Cur.pc \in {"stop_read", "done"}
        /\ Cur.pc = "done" => Cur.result = "ok" /\ Cur.trace = <<Ev("read", 0, TRUE)>>

\* reached by a second stop in a row, on a file that holds text but no pid
C9_Witness ==
    /\ C9_Case /\ Cur.pc = "done" /\ Cur.result = "ok"
    /\ pre[Main].op = "stop" /\ pre[Main].result = "ok"
    /\ pidFile = File(<<"a", "b", "c", NL>>)

\* the first liveness check of a stop call found the recorded pid dead
C10_Case ==
    /\ Cur.op = "stop" /\ Len(Cur.trace) >= 2
    /\ Cur.trace[2].e = "isProcessRunning" /\ ~Cur.trace[2].ok

(* C10: a stop whose first liveness check finds the recorded pid dead deletes *)
(* the record and returns success, without sending a graceful or forceful    *)
(* signal to any process.                                                    *)
C10_StopStaleRecord ==
    C10_Case =>
        /\ SignalsOf(Cur) = {}
        /\ Cur.pc \in {"stop_stale", "done"}
        /\ Cur.pc = "done" =>
              /\ Cur.result = "ok" /\ pidFile = Absent
              /\ Cur.trace[3] = Ev("unlink", 0, TRUE) /\ Len(Cur.trace) = 3

C10_Witness == C10_Case /\ Cur.pc = "done" /\ Cur.result = "ok" /\ pidFile = Absent

\* the first liveness check of a stop call found the recorded pid alive
C11_Case ==
    /\ Cur.op = "stop" /\ Len(Cur.trace) >= 2
    /\ Cur.trace[2] = Ev("isProcessRunning", Cur.pid, TRUE)

\* the liveness polls of the grace period that a stop call made before its i-th effect
PollsBefore(r, i) == {j \in 4..(i - 1) : j <= Len(r.trace) /\ r.trace[j].e = "isProcessRunning"}

(* C11: in a stop that found the recorded pid alive the signals are ordered.  *)
(* The effect after the liveness check is the one SIGTERM of the call, to    *)
(* the recorded pid.  SIGKILL is sent at most once, to the same pid, after   *)
(* the SIGTERM was delivered and after every poll, 150 ms apart and covering *)
(* the 5000 ms of grace, found the process alive.  A poll that finds the     *)
(* process dead is followed by the deletion of the record and success, and   *)
(* the call never sends SIGKILL.                                             *)
C11_SignalOrder ==
    C11_Case =>
        LET tr == Cur.trace
            n == Len(tr)
            kills == {i \in 1..n : tr[i].e = "SIGKILL"}
        IN  /\ n >= 3 => tr[3].e = "SIGTERM" /\ tr[3].pid = Cur.pid
            /\ {i \in 1..n : tr[i].e = "SIGTERM"} \subseteq {3}
            /\ Cardinality(kills) <= 1
            /\ \A i \in kills :
                  /\ tr[i].pid = Cur.pid
                  /\ tr[3] = Ev("SIGTERM", Cur.pid, TRUE)
                  /\ \A j \in PollsBefore(Cur, i) : tr[j].ok
                  /\ Cardinality(PollsBefore(Cur, i)) * StopPollMs >= StopGraceMs
                  /\ (Cardinality(PollsBefore(Cur, i)) - 1) * StopPollMs < StopGraceMs
            /\ \A j \in PollsBefore(Cur, n + 1) :
                  ~tr[j].ok =>
                     /\ kills = {}
                     /\ Cur.pc \in {"stop_dead", "done"}
                     /\ Cur.pc = "done" =>
                           /\ Cur.result = "ok" /\ pidFile = Absent
                           /\ n = j + 1 /\ tr[n] = Ev("unlink", 0, TRUE)

\* reached by a call that sent both signals: the process outlived the grace period
C11_Witness ==
    /\ C11_Case /\ Cur.pc = "done" /\ Cur.result = "ok"
    /\ Saw(Cur, Ev("SIGTERM", Cur.pid, TRUE)) /\ Saw(Cur, Ev("SIGKILL", Cur.pid, TRUE))

\* ... and by one whose process died of the graceful signal within the grace period
C11_WitnessGraceful ==
    /\ C11_Case /\ Cur.pc = "done" /\ Cur.result = "ok"
    /\ Saw(Cur, Ev("SIGTERM", Cur.pid, TRUE)) /\ ~Has(Cur, "SIGKILL")
    /\ Len(Cur.trace) > 10

\* a stop call has ended, having found a record whose process every poll of the grace
\* period found alive
C12_Case ==
    /\ Cur.op = "stop" /\ Cur.pc = "done"
    /\ C11_Case /\ Cur.t >= StopGraceMs
    /\ \A j \in PollsBefore(Cur, Len(Cur.trace) + 1) : Cur.trace[j].ok

(* C12: a stop call that found a record ends with the record deleted; in      *)
(* particular a call whose process was alive at every poll up to the grace   *)
(* deadline ends with no record file, whatever the process does between the  *)
(* last poll and the forceful signal.                                        *)
C12_StopEndsWithRecordDeleted == C12_Case => pidFile = Absent

\* a status call has returned a value
C13_Case == Cur.op = "status" /\ Cur.pc = "done" /\ Cur.result = "ok"

(* C13: the value status returns is a function of the probe result, of the    *)
(* presence of a record and of the liveness of the recorded pid.  reachable  *)
(* is the result of the one probe.  process is "missing", with no pid, iff   *)
(* the record file is absent or holds no positive integer; otherwise pid is  *)
(* the recorded pid and process is "running" iff the liveness check of that  *)
(* pid found it alive and "stopped" iff it found it dead.  Neither axis      *)
(* enters the other.                                                         *)
C13_StatusIsFunction ==
    C13_Case =>
        LET tr == Cur.trace
            v == Cur.ret
        IN  /\ Len(tr) >= 2 /\ tr[1].e = "probe" /\ tr[2].e = "read"
            /\ v.reachable = tr[1].ok
            /\ v.process \in {"running", "stopped", "missing"}
            /\ v.process = "missing" <=> pre[Main].record \in NoRecordFiles
            /\ v.process = "missing" => v.pid = 0 /\ Len(tr) = 2
            /\ v.process # "missing" =>
                  /\ v.pid \in Pids /\ pre[Main].record = File(ToDecimal(v.pid) \o <<NL>>)
                  /\ Len(tr) = 3 /\ tr[3].e = "isProcessRunning" /\ tr[3].pid = v.pid
                  /\ v.process = "running" <=> tr[3].ok
                  /\ v.process = "stopped" <=> ~tr[3].ok
                  /\ v.process = "stopped" => procs[v.pid] = "dead"
                  /\ procs[v.pid] = "alive" => v.process = "running"

C13_Value(process, reachable) ==
    C13_Case /\ Cur.ret.process = process /\ Cur.ret.reachable = reachable

\* the six values are all produced
C13_Witness == C13_Value("stopped", TRUE) /\ Cur.ret.pid = OldPid
C13_WitnessStoppedUnreachable == C13_Value("stopped", FALSE)
C13_WitnessRunningReachable == C13_Value("running", TRUE)
C13_WitnessRunningUnreachable == C13_Value("running", FALSE) /\ Cur.ret.pid \in Spawned
C13_WitnessMissingReachable == C13_Value("missing", TRUE) /\ pidFile = Absent
C13_WitnessMissingUnreachable == C13_Value("missing", FALSE) /\ pidFile # Absent

\* the effects of a call other than probing, reading and testing liveness
Mutations(r) ==
    {i \in DOMAIN r.trace : r.trace[i].e \notin {"probe", "read", "isProcessRunning"}}

(* C14: status is a pure read path.  At every moment of a status call, and    *)
(* when it has ended, the record file is present or absent as the call found *)
(* it and holds the same text, the directories and the log file are as they  *)
(* were, no process has been spawned and no signal sent; the call has only   *)
(* probed, read and tested liveness.  This includes the calls that find the  *)
(* recorded pid dead, the text unparseable or the file unreadable.           *)
C14_StatusPureRead ==
    Cur.op = "status" =>
        /\ FrameKept(Main)
        /\ SignalsOf(Cur) = {}
        /\ Mutations(Cur) = {}

\* reached by a call that found the recorded pid dead
C14_Witness ==
    /\ C13_Value("stopped", FALSE)
    /\ pidFile = File(ToDecimal(Cur.ret.pid) \o <<NL>>) /\ procs[Cur.ret.pid] = "dead"

\* ... and by one that found a text that is no pid
C14_WitnessUnparseable ==
    /\ C13_Value("missing", TRUE) /\ pidFile = File(<<"a", "b", "c", NL>>)

\* a liveness check of the pid the call read from the record returned false
DeadFound(r) == r.pid # 0 /\ Saw(r, Ev("isProcessRunning", r.pid, FALSE))

\* the record file names the pid
Names(file, pid) == file = File(ToDecimal(pid) \o <<NL>>)

(* C15, as stated: in every status, start or stop call in which a liveness    *)
(* check of the pid read from the record returned false, the record naming   *)
(* that dead pid is gone when the call has returned or failed.               *)
C15_DeadRecordDeleted ==
    (Cur.pc = "done" /\ DeadFound(Cur)) => ~Names(pidFile, Cur.pid)

(* C15, amended: the record is deleted when stop discovers the recorded pid   *)
(* dead.  A stop call in which a liveness check of the pid read from the     *)
(* record returned false (the first check or a poll of the grace period)     *)
(* ends in success with the record file deleted, the deletion being its last *)
(* effect.  status and start do not delete: after such a status call the     *)
(* record is the file it was, naming the dead pid, and after such a start    *)
(* call it is too, unless the call went on to write the record.              *)
C15_DeadRecordDeletedByStop ==
    (Cur.pc = "done" /\ DeadFound(Cur)) =>
        /\ Cur.op = "stop" =>
              /\ pidFile = Absent /\ Cur.result = "ok"
              /\ Cur.trace[Len(Cur.trace)] = Ev("unlink", 0, TRUE)
        /\ Cur.op = "status" =>
              /\ pidFile = pre[Main].record /\ Names(pidFile, Cur.pid)
              /\ ~Has(Cur, "unlink")
        /\ (RanStart(Cur) /\ ~Has(Cur, "write")) =>
              /\ pidFile = pre[Main].record /\ Names(pidFile, Cur.pid)
              /\ ~Has(Cur, "unlink")

\* reached by a stop whose process died within the grace period
C15_Witness ==
    /\ Cur.op = "stop" /\ Cur.pc = "done" /\ DeadFound(Cur)
    /\ Has(Cur, "SIGTERM") /\ pidFile = Absent

\* ... by a status call, which leaves the record of the dead pid
C15_WitnessStatus ==
    /\ Cur.op = "status" /\ Cur.pc = "done" /\ DeadFound(Cur) /\ Names(pidFile, Cur.pid)

\* ... and by a start call that fails on its configuration after the liveness check
C15_WitnessStart ==
    /\ Cur.op = "start" /\ Cur.pc = "done" /\ DeadFound(Cur) /\ Names(pidFile, Cur.pid)
    /\ Cur.result = "EntryNotFound"

(* C16: the record is written only after a process is confirmed spawned.      *)
(* Every write of the record file is the effect that follows, in the same    *)
(* call, a spawn that produced a process; every probe of start comes after   *)
(* it; and a call in which no process was spawned has not written: the       *)
(* record file is the file the call found, or deleted.                       *)
C16_WriteOnlyAfterSpawn ==
    LET tr == Cur.trace IN
    /\ \A i \in DOMAIN tr :
          tr[i].e = "write" =>
             /\ i > 1 /\ tr[i - 1].e = "spawn" /\ tr[i - 1].ok
             /\ tr[i - 1].pid \in Spawned
    /\ \A i \in DOMAIN tr :
          (tr[i].e = "spawn" /\ tr[i].ok /\ i < Len(tr)) => tr[i + 1].e = "write"
    /\ ~Saw(Cur, Ev("spawn", Cur.child, TRUE)) => pidFile \in {pre[Main].record, Absent}

\* the pid whose record a call deals with: the child it spawned, else the pid it read
RelevantPid(r) == IF r.child # 0 THEN r.child ELSE r.pid

(* C17: the record is cleared only after liveness is confirmed false or the   *)
(* forceful signal was sent.  Every deletion of the record file is the       *)
(* effect that follows, in the same call, a liveness check of the call's pid *)
(* that returned false or a delivered SIGKILL to it; and a record file that  *)
(* a call found is gone only if the call deleted it.                         *)
C17_ClearedOnlyWhenDead ==
    LET tr == Cur.trace IN
    /\ \A i \in DOMAIN tr :
          tr[i].e = "unlink" =>
             /\ i > 1 /\ RelevantPid(Cur) # 0
             /\ tr[i - 1] \in {Ev("isProcessRunning", RelevantPid(Cur), FALSE),
                               Ev("SIGKILL", RelevantPid(Cur), TRUE)}
    /\ (pidFile = Absent /\ pre[Main].record # Absent) => Has(Cur, "unlink")

\* reached by a stop that deleted the record after the forceful signal
C17_Witness ==
    /\ Cur.op = "stop" /\ Cur.pc = "done" /\ pidFile = Absent
    /\ Len(Cur.trace) > 2
    /\ Cur.trace[Len(Cur.trace) - 1] = Ev("SIGKILL", Cur.pid, TRUE)
    /\ Cur.trace[Len(Cur.trace)].e = "unlink"

\* ... and by a start that deleted the record of its child, found dead
C17_WitnessStart ==
    /\ RanStart(Cur) /\ Cur.pc = "done" /\ pidFile = Absent
    /\ Saw(Cur, Ev("isProcessRunning", Cur.child, FALSE)) /\ Has(Cur, "unlink")

(* C18: record content.  Every write of the record file by the manager is     *)
(* the write of the pid of a process the manager spawned, and a record file  *)
(* that is present and is not the file the call found holds one positive     *)
(* decimal integer followed by a newline: the pid of the child the call      *)
(* spawned.  The manager writes nothing else, in particular not when the     *)
(* spawn yields no pid.                                                      *)
C18_RecordContent ==
    /\ \A i \in DOMAIN Cur.trace :
          Cur.trace[i].e = "write" => Cur.trace[i].pid > 0 /\ Cur.trace[i].pid \in Spawned
    /\ (pidFile # pre[Main].record /\ pidFile # Absent) =>
          /\ Cur.child > 0 /\ Cur.child \in Spawned
          /\ pidFile = File(ToDecimal(Cur.child) \o <<NL>>)

\* the two overlapped calls are start calls that have both spawned a child and written
\* its pid, and both children are alive
C19_Case ==
    \A c \in Callers :
       /\ call[c].op = "start" /\ call[c].child # 0
       /\ Saw(call[c], Ev("write", call[c].child, TRUE))
       /\ procs[call[c].child] = "alive"

(* C19: the race of two overlapped start calls on one record file.  When     *)
(* both calls have spawned a child and written its pid and both children are *)
(* alive, then each call read the record before the other wrote it (neither  *)
(* read the other's pid, and each found no live recorded process), the two   *)
(* children are different processes, and the record names exactly one of     *)
(* them: the other runs without a record.  Nothing in start excludes it.     *)
C19_BothSpawnOneTracked ==
    C19_Case =>
        LET a == call["main"]
            b == call["other"]
        IN  /\ a.child # b.child /\ {a.child, b.child} \subseteq Spawned
            /\ a.pid # b.child /\ b.pid # a.child
            /\ FoundNoLiveRecord(a) /\ FoundNoLiveRecord(b)
            /\ Names(pidFile, a.child) \/ Names(pidFile, b.child)
            /\ ~(Names(pidFile, a.child) /\ Names(pidFile, b.child))

\* reached: both calls have returned success, both children run, one of them untracked
C19_Witness ==
    /\ C19_Case
    /\ \A c \in Callers : call[c].pc = "done" /\ call[c].result = "ok"
    /\ Names(pidFile, call["other"].child) /\ ~Names(pidFile, call["main"].child)

\* a call of the probe has returned
C20_Case == Cur.op = "ping" /\ Cur.pc = "done"

(* C20: the health probe returns true iff the server's answer arrives before  *)
(* the timeout and its status code is below 500, whatever the code (1xx to   *)
(* 4xx are healthy, 5xx are not); it returns false when the transport fails, *)
(* when the answer comes after the timeout and when nothing comes; it never  *)
(* raises; and it has issued one GET request, at no moment more.             *)
C20_ProbeResult ==
    /\ Cur.op = "ping" => Cardinality({i \in DOMAIN Cur.trace : Cur.trace[i].e = "GET"}) <= 1
    /\ C20_Case =>
          /\ Cur.result = "ok"
          /\ Cur.reachable <=>
                /\ Cur.net.kind = "answers"
                /\ Cur.net.latency < Cur.timeoutMs
                /\ Cur.net.status < ServerErrorStatus
          /\ Cardinality({i \in DOMAIN Cur.trace : Cur.trace[i].e = "GET"}) = 1

\* reached with a 404 answer in time, which counts as healthy
C20_Witness ==
    /\ C20_Case /\ Cur.reachable
    /\ Cur.net.kind = "answers" /\ Cur.net.status = 404 /\ Cur.net.latency < Cur.timeoutMs

\* ... with a 503 answer in time, a healthy answer that comes too late, and a transport failure
C20_WitnessServerError ==
    /\ C20_Case /\ ~Cur.reachable /\ Cur.result = "ok"
    /\ Cur.net.kind = "answers" /\ Cur.net.status = 503 /\ Cur.net.latency < Cur.timeoutMs
C20_WitnessLate ==
    /\ C20_Case /\ ~Cur.reachable /\ Cur.result = "ok"
    /\ Cur.net.kind = "answers" /\ Cur.net.status = 200 /\ Cur.net.latency > Cur.timeoutMs
C20_WitnessTransport ==
    /\ C20_Case /\ ~Cur.reachable /\ Cur.result = "ok" /\ Cur.net.kind = "fails"

\* The texts of at most MaxRecordLen characters that denote a positive integer, built
\* from the integer: an optional plus sign, leading zeros, the decimal digits, an
\* optional point with zeros after it, and white space around.
Zeros(k) == [i \in 1..k |-> "0"]
Pads(k) == UNION {[1..j -> {" ", NL}] : j \in 0..k}
Numerals(n) ==
    {c \in {sign \o Zeros(z) \o ToDecimal(n) \o frac :
               sign \in {<<>>, <<"+">>}, z \in 0..MaxRecordLen,
               frac \in {<<>>} \cup {<<".">> \o Zeros(k) : k \in 0..MaxRecordLen}} :
        Len(c) <= MaxRecordLen}
\* the positive integers whose digits are characters of the texts
RecordValues ==
    {n \in 1..(10 ^ MaxRecordLen) :
        \A i \in DOMAIN ToDecimal(n) : ToDecimal(n)[i] \in RecordAlphabet}
PositiveRecords ==
    UNION {UNION {UNION {{[text |-> l \o c \o r, pid |-> n] :
                             r \in Pads(MaxRecordLen - Len(c) - Len(l))} :
                         l \in Pads(MaxRecordLen - Len(c))} :
                  c \in Numerals(n)} :
           n \in RecordValues}
PositiveTexts == {rec.text : rec \in PositiveRecords}

\* a record file that yields no record: missing, or a text that denotes no positive integer
NoRecord(file) == file = Absent \/ (file.st = "ok" /\ file.text \notin PositiveTexts)

\* the examples: missing, empty, blank, non-numeric, zero, negative, not an integer
ExampleNoRecords ==
    {Absent} \cup
    {File(text) : text \in {<<>>, <<" ", NL>>, <<"a">>, <<"1", "a">>, <<"0">>, <<"0", NL>>,
                            <<"-", "1">>, <<"1", ".", "1">>, <<".", "1">>, <<"1", " ", "1">>}}

\* the last effect of the call is the reading of the record file
C21_JustRead == Cur.trace # <<>> /\ Cur.trace[Len(Cur.trace)].e = "read"

(* C21: reading the record yields a pid iff the file exists and its trimmed    *)
(* content denotes a positive integer, and then that integer; a missing file, *)
(* empty or blank content, non-numeric content, zero, a negative number and a *)
(* non-integer yield no record, never an error.  status, start and stop treat *)
(* a file that yields no record as they treat a missing file: status returns  *)
(* "missing" with no pid, stop returns success having only read, start goes   *)
(* on to validate its configuration, none of them testing any liveness.       *)
C21_RecordReading ==
    /\ C21_JustRead =>
          LET rd == Cur.trace[Len(Cur.trace)] IN
          /\ rd.ok
          /\ rd.pid > 0 <=> ~NoRecord(pidFile)
          /\ rd.pid > 0 => [text |-> pidFile.text, pid |-> rd.pid] \in PositiveRecords
          /\ pidFile \in ExampleNoRecords => rd.pid = 0 /\ NoRecord(pidFile)
    /\ (Cur.pc = "done" /\ NoRecord(pre[Main].record)) =>
          /\ FrameKept(Main)
          /\ ~Has(Cur, "isProcessRunning")
          /\ Cur.op = "status" =>
                /\ Cur.ret.process = "missing" /\ Cur.ret.pid = 0
                /\ Len(Cur.trace) = 2 /\ Cur.trace[2] = Ev("read", 0, TRUE)
          /\ Cur.op = "stop" => Cur.result = "ok" /\ Cur.trace = <<Ev("read", 0, TRUE)>>
          /\ Cur.op = "start" =>
                Cur.result = "SourcePathEmpty" /\ Cur.trace = <<Ev("read", 0, TRUE)>>
    /\ (Cur.pc = "done" /\ ~NoRecord(pre[Main].record)) => Has(Cur, "isProcessRunning")

\* reached by a status call on a file that holds a number with a fraction
C21_Witness ==
    /\ Cur.op = "status" /\ Cur.pc = "done" /\ pre[Main].record = File(<<"1", ".", "1">>)
    /\ Cur.ret.process = "missing"

\* ... by a start call on a file that holds a negative number
C21_WitnessStart ==
    /\ Cur.op = "start" /\ Cur.pc = "done" /\ pre[Main].record = File(<<"-", "1">>)
    /\ Cur.result = "SourcePathEmpty"

\* ... and by a stop call on a file whose text denotes a pid with sign and white space
C21_WitnessPid ==
    /\ Cur.op = "stop" /\ Cur.pc = "done" /\ pre[Main].record = File(<<"+", "1", NL>>)
    /\ Cur.pid = 1 /\ pidFile = Absent

\* the call of the sequential caller makes a step whose last effect is e
C22_Does(e) ==
    /\ call'[Main].seq = Cur.seq
    /\ Len(call'[Main].trace) > Len(Cur.trace)
    /\ call'[Main].trace[Len(call'[Main].trace)].e = e

(* C22: absence of the record file is never an error and no other I/O failure *)
(* is masked.  Reading a missing file yields no record and deleting a missing *)
(* file succeeds, the operation going on; reading or deleting a file that     *)
(* cannot be accessed fails, and with it the status, start or stop call that  *)
(* did it, at once and with that failure: it is taken neither for 'no record' *)
(* nor for success.                                                           *)
C22_AbsenceIsNoErrorFaultsPropagate ==
    [][LET next == call'[Main]
           ev == next.trace[Len(next.trace)]
       IN  /\ C22_Does("read") =>
                /\ pidFile = Absent => ev.ok /\ ev.pid = 0 /\ next.result # "IOFailure"
                /\ pidFile = Faulty =>
                      ~ev.ok /\ next.pc = "done" /\ next.result = "IOFailure"
                /\ pidFile' = pidFile
           /\ C22_Does("unlink") =>
                /\ pidFile = Absent =>
                      ev.ok /\ pidFile' = Absent /\ next.result \in {"ok", "ExitedEarly"}
                /\ pidFile = Faulty =>
                      /\ ~ev.ok /\ pidFile' = Faulty
                      /\ next.pc = "done" /\ next.result = "IOFailure"]_vars

\* reached by a stop whose deletion failed: the failure is the call's result
C22_Witness ==
    /\ Cur.op = "stop" /\ Cur.pc = "done" /\ Cur.result = "IOFailure"
    /\ Cur.trace[Len(Cur.trace)] = Ev("unlink", 0, FALSE) /\ pidFile = Faulty

\* ... and by a status call that could not read the file
C22_WitnessRead ==
    /\ Cur.op = "status" /\ Cur.pc = "done" /\ Cur.result = "IOFailure"
    /\ Saw(Cur, Ev("read", 0, FALSE)) /\ pre[Main].record # Faulty

\* the call is that of a fetch or write command: its ensureServerIfNeeded, and the
\* ensureRunning of the manager when the command asked for it
C23_Case == Cur.op \in {"command", "ensureRunning"}

C23_ShouldEnsure == Cur.ensureRequested \/ Cur.settings.autoStart

(* C23: the fetch and write commands start the local server only when the     *)
(* endpoint is unreachable, serverManagement.enabled is true and autoStart is *)
(* true or --ensure-server was passed.  With neither autoStart nor            *)
(* --ensure-server the manager is not invoked: nothing is probed, read or     *)
(* spawned and the command goes on.  With one of them set, enabled false and  *)
(* the endpoint unreachable the command fails with the management-disabled    *)
(* error, having only probed.  With all three the manager's start is called.  *)
C23_CommandStartsServer ==
    C23_Case =>
        LET tr == Cur.trace
            unreachable ==
                tr # <<>> /\ tr[1] = Ev("probe", Min(StatusProbeCapMs, Cur.timeoutMs), FALSE)
        IN  /\ (Has(Cur, "start") \/ Has(Cur, "spawn")) =>
                  unreachable /\ Cur.settings.enabled /\ C23_ShouldEnsure
            /\ Has(Cur, "spawn") => Has(Cur, "start")
            /\ (~C23_ShouldEnsure /\ Cur.pc # "command_ensure") =>
                  /\ Cur.op = "command" /\ Cur.pc = "done" /\ Cur.result = "ok"
                  /\ tr = <<>> /\ FrameKept(Main)
            /\ (C23_ShouldEnsure /\ ~Cur.settings.enabled /\ unreachable) =>
                  /\ tr = <<tr[1]>> /\ FrameKept(Main)
                  /\ Cur.pc \in {"ensure_decide", "done"}
                  /\ Cur.pc = "done" => Cur.result = "ManagementDisabled"
            /\ (C23_ShouldEnsure /\ Cur.settings.enabled /\ unreachable
                  /\ Cur.pc # "ensure_decide") => Has(Cur, "start")

\* reached by a command with --ensure-server, autoStart off: the server is spawned
C23_Witness ==
    /\ C23_Case /\ Cur.pc = "done" /\ Cur.result = "ok"
    /\ Cur.ensureRequested /\ ~Cur.settings.autoStart /\ Cur.settings.enabled
    /\ Cur.child \in Spawned /\ Has(Cur, "spawn")

\* ... by a command with neither switch, which leaves the manager alone
C23_WitnessNotAsked ==
    /\ C23_Case /\ Cur.pc = "done" /\ ~C23_ShouldEnsure /\ Cur.settings.enabled
    /\ Cur.trace = <<>>

\* ... and by a command with autoStart whose management is disabled
C23_WitnessDisabled ==
    /\ C23_Case /\ Cur.pc = "done" /\ Cur.settings.autoStart /\ ~Cur.ensureRequested
    /\ ~Cur.settings.enabled /\ Cur.result = "ManagementDisabled"

----------------------------------------------------------------------------
(* The frontmatter a write command produces *)

\* a finished writeMarkdownFrontmatter call of c on a note that had a frontmatter block
C24_Case(c) ==
    /\ call[c].op = "writeMarkdownFrontmatter"
    /\ call[c].pc = "done"
    /\ pre[c].disk.note # NoFile
    /\ pre[c].disk.note.hasFm

\* the keys config.write.preserveFields lists
C24_Listed(c) == {call[c].args.preserveFields[i] : i \in DOMAIN call[c].args.preserveFields}

\* C24: in shallow mode on a note with frontmatter the produced frontmatter has the keys
\* of the existing and of the new object; a key of both takes the new value unless
\* preserveFields lists it, then the existing value; a key of the existing object only
\* keeps its value; in replace mode the produced frontmatter is the new object
C24_MergedFrontmatter ==
    \A c \in Callers :
       C24_Case(c) =>
          LET existing == pre[c].disk.note.fm
              newFm == call[c].args.newFm
              merged == call[c].out.fm
          IN  /\ call[c].out.hasFm
              /\ call[c].args.mode = "replace" => merged = newFm
              /\ call[c].args.mode = "shallow" =>
                    /\ DOMAIN merged = DOMAIN existing \cup DOMAIN newFm
                    /\ \A k \in DOMAIN merged :
                          merged[k] = IF k \in DOMAIN existing /\ k \in DOMAIN newFm
                                      THEN IF k \in C24_Listed(c) THEN existing[k] ELSE newFm[k]
                                      ELSE IF k \in DOMAIN existing THEN existing[k]
                                      ELSE newFm[k]

\* a shallow write kept the listed tags, took the new title and kept the id only the
\* note had
C24_Witness ==
    \E c \in Callers :
       /\ C24_Case(c)
       /\ call[c].args.mode = "shallow"
       /\ call[c].args.preserveFields = <<"tags">>
       /\ DOMAIN pre[c].disk.note.fm = FmKeys
       /\ DOMAIN call[c].args.newFm = {"tags", "title"}
       /\ call[c].out.fm = [tags |-> "old", title |-> "new", id |-> "old"]
       /\ ~call[c].args.dryRun
       /\ disk.note = call[c].out

\* a replace write dropped what the note had
C24_WitnessReplace ==
    \E c \in Callers :
       /\ C24_Case(c)
       /\ call[c].args.mode = "replace"
       /\ DOMAIN pre[c].disk.note.fm = FmKeys
       /\ call[c].out.fm = [tags |-> "new"]

\* c runs writeMarkdownFrontmatter with dryRun = true
C25_DryRun(c) ==
    /\ call[c].op = "writeMarkdownFrontmatter"
    /\ call[c].args.dryRun

\* a dry run of Main has returned and the same command without dryRun, begun by the
\* other caller in the state the dry run left, has returned too
C25_Case ==
    /\ C25_DryRun(Main)
    /\ call[Main].pc = "done"
    /\ \E c \in Callers \ {Main} :
          /\ call[c].op = "writeMarkdownFrontmatter"
          /\ ~call[c].args.dryRun
          /\ call[c].pc = "done"

\* C25: no step of a dry run changes the note or its directory, and the text a dry run
\* returns is the text the same call without dryRun, made from the same state, writes
\* and returns
C25_DryRunWritesNothing ==
    [][/\ \A c \in Callers :
             C25_DryRun(c)' /\ call'[c] # call[c] => disk' = disk
       /\ C25_Case' =>
             /\ \A c \in Callers \ {Main} :
                   /\ pre'[c].disk = pre'[Main].disk
                   /\ call'[c].out = call'[Main].out
                   /\ disk'.note = call'[Main].out]_vars

\* the dry run on a missing note in a missing directory returned, both were still
\* missing when the real run began, and the real run made them
C25_Witness ==
    /\ C25_Case
    /\ pre[Main].disk.note = NoFile
    /\ ~pre[Main].disk.noteDir
    /\ \E c \in Callers \ {Main} :
          /\ pre[c].disk = pre[Main].disk
          /\ disk.noteDir
          /\ disk.note = call[Main].out
          /\ disk.note.hasFm

\* the dry run on a note with frontmatter returned the merged text and left the note
C25_WitnessMerge ==
    /\ C25_DryRun(Main)
    /\ call[Main].pc = "done"
    /\ call[Main].args.mode = "shallow"
    /\ pre[Main].disk.note # NoFile
    /\ disk = pre[Main].disk
    /\ call[Main].out # disk.note
    /\ call[Main].out.fm # call[Main].args.newFm

----------------------------------------------------------------------------
(* init-config *)

\* c runs writeDefaultConfig
C26_Runs(c) == call[c].op = "writeDefaultConfig"

\* the existence test of c's call found the file
C26_Found(c) == \E i \in DOMAIN call[c].trace : call[c].trace[i] = Ev("access", 0, TRUE)

\* C26: a writeDefaultConfig call without force never changes the content of a config
\* file that exists, and one that finds the file fails with the already-exists error; a
\* call that finds no file, or has force, writes the default configuration and returns
C26_NoOverwriteWithoutForce ==
    [][\A c \in Callers :
          /\ C26_Runs(c) /\ ~call[c].args.force /\ call'[c] # call[c] /\ disk.config # NoFile
                => disk'.config = disk.config
          /\ C26_Runs(c)' /\ call'[c].pc = "done" /\ call[c].pc # "done" =>
                IF ~call[c].args.force /\ disk.config # NoFile /\ call[c].pc = "wdc_access"
                THEN call'[c].result = "config_exists" /\ disk' = disk
                ELSE /\ call'[c].result = "ok"
                     /\ disk'.config = ConfigFile(DefaultConfigText)
                     /\ call[c].args.force \/ ~C26_Found(c)']_vars

\* a call without force failed on the edited file, which is as it was
C26_Witness ==
    \E c \in Callers :
       /\ C26_Runs(c) /\ ~call[c].args.force
       /\ call[c].result = "config_exists"
       /\ pre[c].disk.config = ConfigFile("custom")
       /\ disk.config = ConfigFile("custom")

\* a call with force replaced the edited file by the default
C26_WitnessForce ==
    \E c \in Callers :
       /\ C26_Runs(c) /\ call[c].args.force
       /\ call[c].result = "ok"
       /\ pre[c].disk.config = ConfigFile("custom")
       /\ disk.config = ConfigFile(DefaultConfigText)

\* a call without force made the missing file and its directory
C26_WitnessAbsent ==
    \E c \in Callers :
       /\ C26_Runs(c) /\ ~call[c].args.force
       /\ call[c].result = "ok"
       /\ pre[c].disk = EmptyDisk
       /\ disk.configDir
       /\ disk.config = ConfigFile(DefaultConfigText)

----------------------------------------------------------------------------
(* The poll loop of start *)

\* the step raises the startup-timeout error in c's call
C27_Raised(c) ==
    /\ call[c].pc = "start_poll"
    /\ call'[c].pc # "start_poll"
    /\ "StartupTimeout" \in {call'[c].result, call'[c].startResult}

\* C27: when start raises the startup-timeout error the child the call spawned is alive
\* and no probe of the call returned reachable
C27_TimeoutMeansAlive ==
    [][\A c \in Callers :
          C27_Raised(c) =>
             /\ call[c].child # 0
             /\ procs[call[c].child] = "alive"
             /\ ~ReachableInPoll(call[c])]_vars

\* the places of r's trace that belong to the poll loop: after the record was written
C28_InLoop(r) ==
    {i \in DOMAIN r.trace : \E j \in 1..(i - 1) : r.trace[j] = Ev("write", r.child, TRUE)}

\* C28: each iteration of the poll loop probes, then checks the liveness of the spawned
\* pid, then sleeps: a reachable probe ends the loop with success and nothing after it,
\* an unreachable one is followed by the liveness check, a sleep follows only a check
\* that found the child alive, and a check that found it dead is followed by the
\* deletion of the record
C28_ProbeLivenessSleep ==
    \A c \in Callers :
       LET r == call[c] IN
       RanStart(r) =>
          \A i \in C28_InLoop(r) :
             LET ev == r.trace[i]
                 before == r.trace[i - 1]
             IN  /\ ev.e \in {"probe", "isProcessRunning", "sleep", "unlink"}
                 /\ ev.e = "probe" =>
                       /\ before.e \in {"write", "sleep"}
                       /\ ev.ok => i = Len(r.trace) /\ r.pc \in {"done", "ensure_return"}
                                   /\ "ok" \in {r.result, r.startResult}
                       /\ ~ev.ok => r.pc = "start_alive" \/ i < Len(r.trace)
                 /\ ev.e = "isProcessRunning" =>
                       /\ ev.pid = r.child
                       /\ before.e = "probe" /\ ~before.ok
                       /\ i = Len(r.trace) => r.pc = IF ev.ok THEN "start_sleep" ELSE "start_clear"
                 /\ ev.e = "sleep" => before = Ev("isProcessRunning", r.child, TRUE)
                 /\ ev.e = "unlink" => before = Ev("isProcessRunning", r.child, FALSE)

\* a call slept after an iteration that found the child alive and, in the next, found
\* it dead and cleared the record without sleeping
C28_Witness ==
    \E c \in Callers :
       LET r == call[c] IN
       /\ RanStart(r) /\ r.pc = "done" /\ r.result = "ExitedEarly"
       /\ \E i \in C28_InLoop(r) :
             /\ i + 5 = Len(r.trace)
             /\ r.trace[i].e = "probe" /\ ~r.trace[i].ok
             /\ r.trace[i + 1] = Ev("isProcessRunning", r.child, TRUE)
             /\ r.trace[i + 2].e = "sleep"
             /\ r.trace[i + 3].e = "probe" /\ ~r.trace[i + 3].ok
             /\ r.trace[i + 4] = Ev("isProcessRunning", r.child, FALSE)
             /\ r.trace[i + 5].e = "unlink"

\* a call returned success on a reachable first probe, with no liveness check, and its
\* child is dead
C28_WitnessDeadReachable ==
    \E c \in Callers :
       LET r == call[c] IN
       /\ r.op = "start" /\ r.pc = "done" /\ r.result = "ok"
       /\ r.child # 0 /\ procs[r.child] = "dead"
       /\ r.trace[Len(r.trace)].e = "probe"
       /\ r.trace[Len(r.trace) - 1].e = "write"

----------------------------------------------------------------------------
(* The order of start's checks *)

\* what the source validation of lines 99-110 leaves in a call: the access of the entry
\* artifact or one of the two configuration errors
C29_SourceValidated(r) ==
    \/ Has(r, "access")
    \/ {r.result, r.startResult} \cap {"SourcePathEmpty", "EntryNotFound"} # {}

\* C29: start validates the host, then looks for a live record, then validates the
\* source location.  With a non-loopback host it fails with the configuration error
\* without reading the record; with a loopback host and a live recorded pid it returns
\* success without validating the source location and without spawning; the source
\* location is validated only by a call that found no live record
C29_CheckOrder ==
    \A c \in Callers :
       LET r == call[c] IN
       RanStart(r) =>
          /\ r.host \notin LoopbackNames =>
                /\ ~Has(r, "read") /\ ~C29_SourceValidated(r) /\ ~Has(r, "spawn")
                /\ r.pc = "done" => r.result = "HostNotLocal"
          /\ (r.host \in LoopbackNames /\ FoundLiveRecord(r)) =>
                /\ ~C29_SourceValidated(r) /\ ~Has(r, "spawn")
                /\ r.pc = "done" => r.result = "ok"
                /\ pidFile = pre[c].record \/ \E d \in Callers \ {c} : call[d].op # "none"
          /\ C29_SourceValidated(r) => r.host \in LoopbackNames /\ FoundNoLiveRecord(r)

\* start on a loopback endpoint with an empty source location found the recorded
\* process alive and returned success
C29_Witness ==
    /\ Cur.op = "start" /\ Cur.pc = "done" /\ Cur.result = "ok"
    /\ Cur.host \in LoopbackNames
    /\ Cur.settings.sourcePath = <<>>
    /\ FoundLiveRecord(Cur)
    /\ Spawned = {}

\* start on another host failed with the configuration error while the recorded
\* process was alive
C29_WitnessHost ==
    /\ Cur.op = "start" /\ Cur.pc = "done" /\ Cur.result = "HostNotLocal"
    /\ Cur.host \notin LoopbackNames
    /\ pre[Main].op = "none"
    /\ pidFile = File(PidText(OldPid)) /\ procs[OldPid] = "alive"

----------------------------------------------------------------------------
(* Termination of start *)

\* the step begins an iteration of c's poll loop: the probe of line 133 is made
C30_IterationBegins(c) ==
    /\ call[c].pc = "start_poll"
    /\ Len(call'[c].trace) = Len(call[c].trace) + 1
    /\ call'[c].trace[Len(call'[c].trace)].e = "probe"

\* c's start call is under way
C30_Running(c) == call[c].op = "start" /\ call[c].pc # "done"

\* c's start call is in its poll loop
C30_InLoop(c) ==
    call[c].op = "start" /\ call[c].pc \in {"start_poll", "start_alive", "start_clear", "start_sleep"}

\* C30: the poll loop begins no iteration at or after the startup deadline, and every
\* start call ends; one that entered the poll loop ends with success, the exited-early
\* error or the startup-timeout error, also when the child stays alive and no probe is
\* ever reachable
C30_StartTerminates ==
    /\ [][\A c \in Callers :
             C30_IterationBegins(c) => call[c].t < call[c].settings.startupTimeoutMs]_vars
    /\ \A c \in Callers :
          /\ C30_Running(c) ~> (call[c].pc = "done")
          /\ C30_InLoop(c) ~>
                (call[c].pc = "done" /\ call[c].result \in {"ok", "ExitedEarly", "StartupTimeout"})

\* a call ended with the startup timeout after iterations that all found the endpoint
\* unreachable and the child alive, and the child is alive still
C30_Witness ==
    /\ Cur.op = "start" /\ Cur.pc = "done" /\ Cur.result = "StartupTimeout"
    /\ Cur.t >= Cur.settings.startupTimeoutMs
    /\ Cur.child # 0 /\ procs[Cur.child] = "alive"
    /\ ~DiedInPoll(Cur) /\ ~ReachableInPoll(Cur)
    /\ Cur.trace[Len(Cur.trace)].e = "sleep"

----------------------------------------------------------------------------
(* Termination of stop *)

\* the step begins an iteration of the liveness poll loop of c's stop call
C31_IterationBegins(c) ==
    /\ call[c].op = "stop"
    /\ call[c].pc = "stop_poll"
    /\ Len(call'[c].trace) = Len(call[c].trace) + 1
    /\ call'[c].trace[Len(call'[c].trace)].e = "isProcessRunning"

\* what r did from its forceful signal on
C31_FromKill(r) ==
    {i \in DOMAIN r.trace : \E j \in 1..i : r.trace[j].e = "SIGKILL"}

\* C31: the poll loop of stop begins no iteration at or after the grace deadline of
\* 5000 ms; from the forceful signal on a stop call does that one signal and at most
\* one deletion of the record, and no liveness check or sleep; every stop call ends,
\* also when the process stays alive after the graceful signal
C31_StopTerminates ==
    /\ [][\A c \in Callers : C31_IterationBegins(c) => call[c].t < StopGraceMs]_vars
    /\ [](\A c \in Callers :
            LET r == call[c] IN
            r.op = "stop" =>
               /\ Cardinality(C31_FromKill(r)) <= 2
               /\ \A i \in C31_FromKill(r) :
                     \/ r.trace[i].e = "SIGKILL" /\ r.trace[i - 1].e = "sleep"
                     \/ r.trace[i].e = "unlink" /\ r.trace[i - 1].e = "SIGKILL")
    /\ \A c \in Callers : (call[c].op = "stop" /\ call[c].pc # "done") ~> (call[c].pc = "done")

\* a stop call polled a process that ignored the graceful signal up to the grace
\* deadline, sent the forceful signal, deleted the record and returned
C31_Witness ==
    /\ Cur.op = "stop" /\ Cur.pc = "done" /\ Cur.result = "ok"
    /\ Cur.t >= StopGraceMs
    /\ Len(Cur.trace) >= 2
    /\ Cur.trace[Len(Cur.trace) - 1] = Ev("SIGKILL", Cur.pid, TRUE)
    /\ Cur.trace[Len(Cur.trace)].e = "unlink"
    /\ pidFile = Absent

----------------------------------------------------------------------------
(* Probe timeouts *)

\* the timeouts of the probes r made, in order
C32_Probes(r) == {i \in DOMAIN r.trace : r.trace[i].e = "probe"}

\* C32: the probe of status and the probe ensureRunning begins with have the timeout
\* t when t <= 3000 and 3000 otherwise, for the request timeout t of the caller; every
\* probe of start's poll loop has the timeout 1500, whatever startupTimeoutMs and
\* pollIntervalMs are
C32_ProbeTimeouts ==
    \A c \in Callers :
       LET r == call[c] IN
       \A i \in C32_Probes(r) :
          IF r.op \in {"status", "ensureRunning"} /\ i = 1
          THEN /\ r.trace[i].pid = IF r.timeoutMs <= 3000 THEN r.timeoutMs ELSE 3000
               /\ r.trace[i].pid <= 3000
          ELSE /\ RanStart(r)
               /\ i \in C28_InLoop(r)
               /\ r.trace[i].pid = 1500

\* status with a request timeout just above the cap probed with 3000
C32_Witness ==
    /\ Cur.op = "status" /\ Cur.pc = "done"
    /\ Cur.timeoutMs = 3001
    /\ Cur.trace[1].e = "probe" /\ Cur.trace[1].pid = 3000

\* ensureRunning with a request timeout just below the cap probed with it, and the
\* start it awaited, with the longer startup timeout and poll interval, probed with 1500
C32_WitnessEnsure ==
    /\ Cur.op = "ensureRunning" /\ Cur.pc = "done"
    /\ Cur.timeoutMs = 2999
    /\ Cur.settings.startupTimeoutMs = 2 * StartupTimeoutMs
    /\ Cur.settings.pollIntervalMs = 2 * DefaultPollIntervalMs
    /\ Cur.trace[1].e = "probe" /\ Cur.trace[1].pid = 2999
    /\ \E i \in C32_Probes(Cur) : i > 1 /\ Cur.trace[i].pid = 1500

\* status with the least request timeout probed with it
C32_WitnessSmall ==
    /\ Cur.op = "status" /\ Cur.pc = "done"
    /\ Cur.timeoutMs = 1
    /\ Cur.trace[1].e = "probe" /\ Cur.trace[1].pid = 1

----------------------------------------------------------------------------
(* The processes of the manager under sequential use *)

\* the processes that run: the one an earlier run recorded and those spawned since
C33_Alive == {p \in Pids : procs[p] = "alive"}

\* C33: under sequential use at most one process spawned by the manager is alive at
\* any time
C33_AtMostOneAlive == Cardinality(C33_Alive) <= 1

\* no call is under way
C34_Quiet == \A c \in Callers : call[c].pc \in {"idle", "done"}

\* C34: after each completed call, successful or failed, every live process of the
\* manager is the one the record names
C34_NoOrphan ==
    C34_Quiet => \A p \in C33_Alive : pidFile = File(PidText(p))

----------------------------------------------------------------------------
(* What a successful start has observed *)

\* the start r runs, directly or for ensureRunning, has returned success
C35_StartSucceeded(r) ==
    \/ r.op = "start" /\ r.pc = "done" /\ r.result = "ok"
    \/ r.op = "ensureRunning" /\ Has(r, "start") /\ r.startResult = "ok"

\* the effects of the start r runs: all of a start call, those after the delegation
\* in an ensureRunning call
C35_OfStart(r) ==
    {i \in DOMAIN r.trace : r.op = "start" \/ \E j \in 1..(i - 1) : r.trace[j].e = "start"}

\* (a) the recorded pid was alive at lines 94-96 and start made no probe
C35_ByRecord(r) ==
    /\ FoundLiveRecord(r)
    /\ ~Has(r, "spawn")
    /\ \A i \in C35_OfStart(r) : r.trace[i].e \in {"read", "isProcessRunning"}

\* (b) start spawned and its last effect is a reachable probe of the poll loop
C35_ByProbe(r) ==
    /\ Saw(r, Ev("spawn", r.child, TRUE)) /\ r.child # 0
    /\ Len(r.trace) \in C28_InLoop(r)
    /\ r.trace[Len(r.trace)].e = "probe" /\ r.trace[Len(r.trace)].ok

\* C35: a start returns success in exactly two ways: the recorded pid was alive at the
\* initial check, and then start made no probe; or a probe after the spawn returned
\* reachable.  An ensureRunning that went through (a) has made one probe, which failed
C35_SuccessWithoutReachability ==
    \A c \in Callers :
       LET r == call[c] IN
       /\ C35_StartSucceeded(r) =>
             /\ C35_ByRecord(r) \/ C35_ByProbe(r)
             /\ ~(C35_ByRecord(r) /\ C35_ByProbe(r))
             /\ (r.op = "ensureRunning" /\ C35_ByRecord(r)) =>
                   /\ C32_Probes(r) = {1}
                   /\ ~r.trace[1].ok
       /\ (RanStart(r) /\ r.pc = "done" /\ (FoundLiveRecord(r) \/ ReachableInPoll(r))) =>
             r.result = "ok"

\* ensureRunning with management enabled returned success on a live recorded pid; its
\* only probe had failed
C35_Witness ==
    /\ Cur.op = "ensureRunning" /\ Cur.pc = "done" /\ Cur.result = "ok"
    /\ Cur.settings.enabled
    /\ C35_ByRecord(Cur)
    /\ Cur.trace[1] = Ev("probe", Cur.trace[1].pid, FALSE)
    /\ C32_Probes(Cur) = {1}
    /\ procs[Cur.pid] = "alive"

\* a start returned success on a reachable probe after its spawn
C35_WitnessProbe ==
    /\ Cur.op = "start" /\ Cur.pc = "done" /\ Cur.result = "ok"
    /\ C35_ByProbe(Cur)

----------------------------------------------------------------------------
(* stop overlapped by start *)

\* the step is one of the deletions of c's stop call: lines 155, 164, 171
C36_StopDeletes(c) ==
    /\ call[c].op = "stop"
    /\ call[c].pc \in {"stop_stale", "stop_dead", "stop_final"}
    /\ call'[c].pc = "done"

\* C36: stop deletes the record file by path, without reading it again: each of its
\* deletions removes the file whatever pid it names by then, and the call has read the
\* record once
C36_StopDeletesByPath ==
    [][\A c \in Callers :
          C36_StopDeletes(c) =>
             /\ pidFile # Faulty => pidFile' = Absent
             /\ Cardinality({i \in DOMAIN call'[c].trace : call'[c].trace[i].e = "read"}) = 1
             /\ call'[c].trace[1].e = "read"]_vars

\* the race: stop read the pid of a live process and signalled it; the process
\* died; start found it dead, spawned another and recorded it; stop's next poll saw
\* the first process dead and deleted the record: the second is alive with no record
C36_Witness ==
    \E c \in Callers \ {Main} :
       LET stop == call[Main]
           start == call[c]
       IN  /\ stop.op = "stop" /\ stop.pc = "done" /\ stop.result = "ok"
           /\ Saw(stop, Ev("SIGTERM", stop.pid, TRUE))
           /\ Len(stop.trace) >= 2
           /\ stop.trace[Len(stop.trace) - 1] = Ev("isProcessRunning", stop.pid, FALSE)
           /\ stop.trace[Len(stop.trace)] = Ev("unlink", 0, TRUE)
           /\ start.op = "start"
           /\ Saw(start, Ev("read", stop.pid, TRUE))
           /\ Saw(start, Ev("isProcessRunning", stop.pid, FALSE))
           /\ start.child # 0 /\ start.child # stop.pid
           /\ Saw(start, Ev("write", start.child, TRUE))
           /\ procs[start.child] = "alive"
           /\ pidFile = Absent

----------------------------------------------------------------------------
(* Who sends termination signals, and to whom *)

\* the reads of the record r has made
C37_Reads(r) == {i \in DOMAIN r.trace : r.trace[i].e = "read"}

\* C37: status, start and ensureRunning send no termination signal; every signal of a
\* stop call goes to the pid the call read from the record as its first effect and
\* found alive before the graceful signal; a stop call reads the record once
C37_SignalsOnlyByStop ==
    \A c \in Callers :
       LET r == call[c] IN
       /\ r.op \in {"status", "start", "ensureRunning"} => SignalsOf(r) = {}
       /\ r.op = "stop" =>
             /\ C37_Reads(r) \subseteq {1}
             /\ \A i \in SignalsOf(r) :
                   /\ i > 2
                   /\ r.trace[i].pid # 0
                   /\ r.trace[1] = Ev("read", r.trace[i].pid, TRUE)
                   /\ r.trace[2] = Ev("isProcessRunning", r.trace[i].pid, TRUE)

\* a stop call sent both signals to the pid of its one read, and the start call before
\* it, which spawned that process, sent none
C37_Witness ==
    /\ Cur.op = "stop" /\ Cur.pc = "done"
    /\ Cardinality(SignalsOf(Cur)) = 2
    /\ C37_Reads(Cur) = {1}
    /\ Cur.trace[1].pid = pre[Main].child
    /\ pre[Main].op = "start"
    /\ \A i \in SignalsOf(Cur) : Cur.trace[i].pid = pre[Main].child

----------------------------------------------------------------------------
(* start does not look at the endpoint before it spawns *)

\* r is past the source validation of a start on a loopback endpoint that found no live
\* record and a valid source configuration
C38_MustSpawn(r) ==
    /\ RanStart(r)
    /\ r.host \in LoopbackNames
    /\ FoundNoLiveRecord(r)
    /\ Saw(r, Ev("access", 0, TRUE))
    /\ r.pc \notin {"start_mkdir", "start_spawn"}

\* C38: a start call makes no probe before its spawn: all its probes are those of the
\* poll loop, after the record was written.  With a loopback endpoint, a valid source
\* configuration and no live recorded pid it spawns whatever the endpoint would have
\* answered; when the first probe is reachable it has, by then, spawned a process and
\* made the record name it, and it returns success.  An ensureRunning call that
\* spawns has probed before, and found the endpoint unreachable
C38_NoProbeBeforeSpawn ==
    \A c \in Callers :
       LET r == call[c] IN
       /\ r.op = "start" => C32_Probes(r) \subseteq C28_InLoop(r)
       /\ C38_MustSpawn(r) => Has(r, "spawn") /\ r.trace[Len(r.trace)].e # "access"
       /\ (r.op = "start" /\ C32_Probes(r) # {} /\ \A i \in C32_Probes(r) : r.trace[i].ok) =>
             /\ Saw(r, Ev("spawn", r.child, TRUE)) /\ r.child # 0
             /\ r.child \notin pre[c].spawned
             /\ Saw(r, Ev("write", r.child, TRUE))
             /\ r.pc = "done" /\ r.result = "ok"
             /\ C34_Quiet => pidFile = File(PidText(r.child))
       /\ (r.op = "ensureRunning" /\ Has(r, "spawn")) =>
             /\ r.trace[1].e = "probe" /\ ~r.trace[1].ok
             /\ C32_Probes(r) \ {1} \subseteq C28_InLoop(r)

\* a start call found the record of a dead process, spawned, replaced the record and
\* returned success on its first probe
C38_Witness ==
    /\ Cur.op = "start" /\ Cur.pc = "done" /\ Cur.result = "ok"
    /\ pre[Main].record = File(PidText(OldPid))
    /\ Cur.child # 0 /\ Cur.child # OldPid
    /\ pidFile = File(PidText(Cur.child))
    /\ Cardinality(C32_Probes(Cur)) = 1
    /\ Cur.trace[Len(Cur.trace)] = Ev("probe", StartProbeTimeoutMs, TRUE)

====
